---- MODULE Spec2Model ----
(***************************************************************************)
(* Tenaxis: the role/permission matrix (src/src/lib/permissions.ts), the   *)
(* tenant-scoped base repository (src/src/services/audit.service.ts,       *)
(* BaseService), the stock, user and project services (src/unnamed/part_007*)
(* and part_008), the asset service (src/src/services/asset.service.ts),   *)
(* the maintenance ticket service (src/src/services/maintenance.service.ts)*)
(* the audit log service, the asset store (src/unnamed/part_009), the      *)
(* router guard (src/unnamed/part_006) and the auth store                  *)
(* (src/src/stores/auth.store.ts).                                         *)
(*                                                                         *)
(* Each component is its own state machine over its own variables; a       *)
(* component's specification leaves the other components' variables        *)
(* unchanged.                                                              *)
(***************************************************************************)
EXTENDS Integers, Sequences, FiniteSets, Bags, TLC

VARIABLES
    permCall,       \* the last call of a permission function and its outcome
    tenantId,       \* BaseService.tenantId of the repository instance
    docs,           \* the document store: path <<tenant, id>> -> document
    repoCall,       \* the last repository call: its outcome and the paths it touched
    stockTenantId,  \* StockService.tenantId
    stockDocs,      \* office_stock documents of the store, in query order
    transactions,   \* stock_transactions documents of the store
    stockCalls,     \* the in-flight StockService calls
    assetTenantId,  \* AssetService.tenantId
    assets,         \* asset documents: id -> document
    assetEvents,    \* asset_events documents (sub-collection of their asset)
    assetCalls,     \* the in-flight AssetService calls
    maintTenantId,  \* MaintenanceService.tenantId
    tickets,        \* maintenance ticket documents: id -> document
    ticketLog,      \* the last MaintenanceService call and the status change it made
    now,            \* Timestamp.now(): the wall clock
    auditTenantId,  \* AuditLogService.tenantId
    auditLogs,      \* audit_logs documents of the store, in the order written
    auditCall,      \* the last AuditLogService call and its outcome
    storeAssets,    \* useAssetStore.assets: the local list, id -> local copy
    currentAsset,   \* useAssetStore.currentAsset: <<>> or <<local copy>>
    storeCalls,     \* the in-flight useAssetStore actions
    userTenantId,   \* UserService.tenantId
    users,          \* users documents of the store, <<tenant, uid>> -> document
    userCall,       \* the last UserService call, its actor and its outcome
    isAuthenticated,\* useAuthStore.isAuthenticated
    currentRole,    \* useAuthStore.currentUser?.role, NULL while no user is loaded
    authLoading,    \* TRUE while loadUserData of the auth listener is in flight
    navCall,        \* the last navigation: its target, the guard's answer and
                    \* the route it ended on (router.currentRoute, if any)
    entTenantId,    \* BaseService.tenantId of the service of stamped entities
    entities,       \* its collection, <<tenant, id>> -> the document's fields
    clock,          \* Timestamp.now() as that service reads it
    entCall,        \* its last call: the arguments and what came back
    actionLists,    \* the action arrays ROLE_PERMISSIONS points to that no longer
                    \* hold what they were loaded with, by reference
    matrixCall,     \* the last call of a permission function on the live matrix
    adminCall,      \* the last admin or office/company access check and its answer
    projTenantId,   \* the tenant the project service is bound to
    expenses,       \* the amounts of the project's expense documents
    actualCost,     \* actual_cost of the project document
    projCalls,      \* the addExpense calls in flight
    localTenant,    \* localStorage tenaxis_current_tenant
    tenantDocs,     \* the ids of the tenant documents
    orgDocs,        \* the tenant of each organization document, in creation order
    userDocs,       \* the tenants that hold a document of the signed-in user
    serviceTenant,  \* the tenant the user, organization and audit services are bound to
    dateNow,        \* Date.now()
    signedIn,       \* whether Firebase Auth has a signed-in user
    isLoading,      \* isLoading of the auth store
    listeners       \* the onAuthStateChanged listeners and where their callbacks stand

permVars  == <<permCall>>
repoVars  == <<tenantId, docs, repoCall>>
stockVars == <<stockTenantId, stockDocs, transactions, stockCalls>>
assetVars == <<assetTenantId, assets, assetEvents, assetCalls>>
maintVars == <<maintTenantId, tickets, ticketLog, now>>
auditVars == <<auditTenantId, auditLogs, auditCall>>
storeVars == <<storeAssets, currentAsset, storeCalls>>
userVars == <<userTenantId, users, userCall>>
navVars == <<isAuthenticated, currentRole, authLoading, navCall>>
entVars == <<entTenantId, entities, clock, entCall>>
matrixVars == <<actionLists, matrixCall>>
adminVars == <<adminCall>>
projVars == <<projTenantId, expenses, actualCost, projCalls>>
loginVars == <<localTenant, tenantDocs, orgDocs, userDocs, serviceTenant, dateNow, signedIn, isLoading, listeners>>
vars == <<permVars, repoVars, stockVars, assetVars, maintVars, auditVars,
          storeVars, userVars, navVars, entVars,
          matrixVars,
          adminVars,
          projVars,
          loginVars>>

\* JavaScript null / undefined of a string-valued field or argument.
NULL == "null"

(***************************************************************************)
(* PERMISSION MATRIX  (src/src/lib/permissions.ts)                         *)
(***************************************************************************)

\* type UserRole
UserRole == {"SUPER_ADMIN", "TENANT_ADMIN", "ORG_ADMIN", "IT_ADMIN",
             "IT_TECHNICIAN", "OFFICE_ADMIN", "FINANCE", "MANAGEMENT"}

\* the values of MODULES
MODULES == {"dashboard", "assets", "consumables", "maintenance", "projects",
            "organizations", "companies", "offices", "departments", "users",
            "vendors", "reports", "audit_logs", "settings"}

\* type ActionValue: the values of the ACTIONS table
ActionValue == {"create", "read", "update", "delete", "export",
            "assign", "transfer", "approve"}

ALL_ACTIONS == <<"create", "read", "update", "delete", "export">>
READ_ONLY == <<"read", "export">>
READ_CREATE_UPDATE == <<"create", "read", "update">>

\* A row of the matrix whose modules all carry the same action list.
Row(list) == [m \in MODULES |-> list]

\* r with the entries of the record `over` replacing its own.
With(r, over) == [m \in DOMAIN r |-> IF m \in DOMAIN over THEN over[m] ELSE r[m]]

ROLE_PERMISSIONS ==
    [ SUPER_ADMIN |-> With(Row(ALL_ACTIONS), [audit_logs |-> <<"read", "export">>]),
      TENANT_ADMIN |-> With(Row(ALL_ACTIONS), [audit_logs |-> <<"read", "export">>]),
      ORG_ADMIN |-> With(Row(ALL_ACTIONS),
          [dashboard |-> <<"read">>, organizations |-> <<"read", "update">>,
           reports |-> <<"read", "export">>, audit_logs |-> <<"read">>,
           settings |-> <<"read", "update">>]),
      IT_ADMIN |-> With(Row(<<"read">>),
          [assets |-> ALL_ACTIONS, consumables |-> ALL_ACTIONS,
           maintenance |-> ALL_ACTIONS, projects |-> READ_CREATE_UPDATE,
           vendors |-> READ_CREATE_UPDATE, reports |-> <<"read", "export">>]),
      IT_TECHNICIAN |-> With(Row(<<"read">>),
          [assets |-> READ_CREATE_UPDATE, consumables |-> <<"read", "update">>,
           maintenance |-> READ_CREATE_UPDATE, audit_logs |-> <<>>,
           settings |-> <<>>]),
      OFFICE_ADMIN |-> With(Row(<<"read">>),
          [assets |-> <<"read", "update">>, consumables |-> READ_CREATE_UPDATE,
           maintenance |-> READ_CREATE_UPDATE, offices |-> <<"read", "update">>,
           departments |-> READ_CREATE_UPDATE, reports |-> <<"read", "export">>,
           audit_logs |-> <<>>]),
      FINANCE |-> With(Row(<<"read">>),
          [assets |-> <<"read", "export">>, consumables |-> <<"read", "export">>,
           maintenance |-> <<"read", "export">>, projects |-> <<"read", "export">>,
           vendors |-> <<"read", "export">>, reports |-> <<"read", "export">>,
           settings |-> <<>>]),
      MANAGEMENT |-> With(Row(<<"read">>),
          [assets |-> READ_ONLY, consumables |-> READ_ONLY,
           maintenance |-> READ_ONLY, projects |-> READ_ONLY,
           reports |-> <<"read", "export">>, settings |-> <<>>]) ]

\* Array.prototype.includes
Includes(list, x) == \E i \in DOMAIN list : list[i] = x

\* The property names every JavaScript object inherits from Object.prototype
\* (the ones this model draws as inputs).
ProtoKeys == {"constructor", "toString", "__proto__"}

\* Strings that are no role, module or action of the program: a typo, the
\* inherited property names, and the `name` property of a function.
OtherStrings == {"unknown"} \cup ProtoKeys \cup {"name"}

\* JavaScript values met while hasPermission walks ROLE_PERMISSIONS.
Undefined == [kind |-> "undefined", name |-> "", items |-> <<>>]
ArrayVal(list) == [kind |-> "array", name |-> "", items |-> list]
RoleMap(role) == [kind |-> "rolemap", name |-> role, items |-> <<>>]
FunctionVal(n) == [kind |-> "function", name |-> n, items |-> <<>>]
ObjectProto == [kind |-> "prototype", name |-> "Object.prototype", items |-> <<>>]
StringVal(s) == [kind |-> "string", name |-> s, items |-> <<>>]
Matrix == [kind |-> "matrix", name |-> "ROLE_PERMISSIONS", items |-> <<>>]

\* value[key] for a key found on Object.prototype.
InheritedProp(key) ==
    CASE key = "constructor" -> FunctionVal("Object")
      [] key = "toString" -> FunctionVal("toString")
      [] key = "hasOwnProperty" -> FunctionVal("hasOwnProperty")
      [] key = "__proto__" -> ObjectProto
      [] OTHER -> Undefined

\* value[key]: own properties first, then the prototype chain.
GetProp(value, key) ==
    CASE value.kind = "matrix" ->
            IF key \in UserRole THEN RoleMap(key) ELSE InheritedProp(key)
      [] value.kind = "rolemap" ->
            IF key \in MODULES THEN ArrayVal(ROLE_PERMISSIONS[value.name][key])
            ELSE InheritedProp(key)
      [] value.kind = "function" ->
            CASE key = "name" -> StringVal(value.name)
              [] key = "constructor" -> FunctionVal("Function")
              [] key = "toString" -> FunctionVal("toString")
              [] key = "hasOwnProperty" -> FunctionVal("hasOwnProperty")
              [] key = "__proto__" -> FunctionVal("")
              [] OTHER -> Undefined
      [] value.kind = "prototype" ->
            IF key = "__proto__" THEN Undefined ELSE InheritedProp(key)
      [] OTHER -> Undefined

\* !value is false
Truthy(value) ==
    /\ value.kind # "undefined"
    /\ ~(value.kind = "string" /\ value.name = "")

\* String.prototype.includes over the strings of this model: none of them is
\* a proper substring of another, so it is equality.
StringIncludes(s, x) == s = x

\* hasPermission with `indexOf(action) > 0` in place of `includes(action)`.
hasPermission_IndexOf(role, module, action) ==
    LET rolePermissions == GetProp(Matrix, role) IN
    IF ~Truthy(rolePermissions) THEN "false"
    ELSE LET modulePermissions == GetProp(rolePermissions, module) IN
         IF ~Truthy(modulePermissions) THEN "false"
         ELSE CASE modulePermissions.kind = "array" ->
                     IF \E i \in DOMAIN modulePermissions.items :
                            i > 1 /\ modulePermissions.items[i] = action
                     THEN "true" ELSE "false"
                [] modulePermissions.kind = "string" ->
                     IF StringIncludes(modulePermissions.name, action) THEN "true" ELSE "false"
                [] OTHER -> "TypeError"

\* hasPermission: "true", "false", or "TypeError" when modulePermissions.includes
\* is not a function.
hasPermission(role, module, action) ==
    LET rolePermissions == GetProp(Matrix, role) IN
    IF ~Truthy(rolePermissions) THEN "false"
    ELSE LET modulePermissions == GetProp(rolePermissions, module) IN
         IF ~Truthy(modulePermissions) THEN "false"
         ELSE CASE modulePermissions.kind = "array" ->
                     IF Includes(modulePermissions.items, action) THEN "true" ELSE "false"
                [] modulePermissions.kind = "string" ->
                     IF StringIncludes(modulePermissions.name, action) THEN "true" ELSE "false"
                [] OTHER -> "TypeError"

canAccessModule(role, module) == hasPermission(role, module, "read")

PermInit == permCall = [fn |-> "none", role |-> NULL, module |-> NULL,
                        action |-> NULL, result |-> "none", roles |-> <<>>]

\* The argument values a caller may pass: the typed ones and any other string.
RoleInputs == UserRole \cup OtherStrings
ModuleInputs == MODULES \cup OtherStrings
ActionInputs == ActionValue \cup {"unknown", "toString"}

\* A permission call leaves the other components alone.
PermFrame == UNCHANGED <<repoVars, stockVars, assetVars, maintVars, auditVars,
                         storeVars, userVars, navVars, entVars,
                         matrixVars,
                         adminVars,
                         projVars,
                         loginVars>>

CallHasPermission ==
    /\ \E role \in RoleInputs, module \in ModuleInputs, action \in ActionInputs :
          permCall' = [fn |-> "hasPermission", role |-> role, module |-> module,
                       action |-> action,
                       result |-> hasPermission(role, module, action),
                       roles |-> <<>>]
    /\ PermFrame

CallCanAccessModule ==
    /\ \E role \in RoleInputs, module \in ModuleInputs :
          permCall' = [fn |-> "canAccessModule", role |-> role, module |-> module,
                       action |-> NULL,
                       result |-> canAccessModule(role, module),
                       roles |-> <<>>]
    /\ PermFrame

\* roleHierarchy of getAssignableRoles
roleHierarchy == <<"SUPER_ADMIN", "TENANT_ADMIN", "ORG_ADMIN", "IT_ADMIN",
                   "OFFICE_ADMIN", "IT_TECHNICIAN", "FINANCE", "MANAGEMENT">>

\* Array.prototype.indexOf: the 0-based index of the first occurrence, or -1.
IndexOf(list, x) ==
    IF \E i \in DOMAIN list : list[i] = x
    THEN (CHOOSE i \in DOMAIN list :
              list[i] = x /\ \A j \in DOMAIN list : list[j] = x => i <= j) - 1
    ELSE -1

\* Array.prototype.slice(start) for 0 <= start
Slice(list, start) == SubSeq(list, start + 1, Len(list))

\* getAssignableRoles with slice(currentIndex) in place of slice(currentIndex + 1).
getAssignableRoles_Inclusive(currentUserRole) ==
    LET currentIndex == IndexOf(roleHierarchy, currentUserRole) IN
    IF currentIndex = -1 THEN <<>>
    ELSE IF currentIndex <= 1 THEN Slice(roleHierarchy, 1)
    ELSE Slice(roleHierarchy, currentIndex)

getAssignableRoles(currentUserRole) ==
    LET currentIndex == IndexOf(roleHierarchy, currentUserRole) IN
    IF currentIndex = -1 THEN <<>>
    ELSE IF currentIndex <= 1 THEN Slice(roleHierarchy, 1)
    ELSE Slice(roleHierarchy, currentIndex + 1)

CallGetAssignableRoles ==
    /\ \E role \in RoleInputs :
          permCall' = [fn |-> "getAssignableRoles", role |-> role,
                       module |-> NULL, action |-> NULL, result |-> "list",
                       roles |-> getAssignableRoles(role)]
    /\ PermFrame

\* The keys of a role's entry of ROLE_PERMISSIONS in the order they are written,
\* which is the order Object.entries gives them in.
ModuleOrder == <<"dashboard", "assets", "consumables", "maintenance", "projects",
                 "organizations", "companies", "offices", "departments", "users",
                 "vendors", "reports", "audit_logs", "settings">>

\* Object.entries(value): the own enumerable properties. A role's entry has its
\* modules; a function and Object.prototype have none.
EntryKeys(value) == IF value.kind = "rolemap" THEN ModuleOrder ELSE <<>>

\* getAccessibleModules filtering on 'export' in place of 'read'.
getAccessibleModules_Export(role) ==
    LET rolePerms == GetProp(Matrix, role)
        Readable(module) == Includes(GetProp(rolePerms, module).items, "export")
    IN  IF ~Truthy(rolePerms) THEN <<>>
        ELSE SelectSeq(EntryKeys(rolePerms), Readable)

getAccessibleModules(role) ==
    LET rolePerms == GetProp(Matrix, role)
        Readable(module) == Includes(GetProp(rolePerms, module).items, "read")
    IN  IF ~Truthy(rolePerms) THEN <<>>
        ELSE SelectSeq(EntryKeys(rolePerms), Readable)

\* The list a call returns is kept in the roles field of permCall.
CallGetAccessibleModules ==
    /\ \E role \in RoleInputs :
          permCall' = [fn |-> "getAccessibleModules", role |-> role,
                       module |-> NULL, action |-> NULL, result |-> "list",
                       roles |-> getAccessibleModules(role)]
    /\ PermFrame

PermNext ==
    \/ CallHasPermission
    \/ CallCanAccessModule
    \/ CallGetAssignableRoles
    \/ CallGetAccessibleModules

\* C1: hasPermission(role, module, action) over the declared types is true iff
\* ROLE_PERMISSIONS[role][module] lists the action; for IT_TECHNICIAN on assets
\* exactly create, read and update are granted (delete is denied).
C1_HasPermissionIffMatrix ==
    (permCall.fn = "hasPermission" /\ permCall.role \in UserRole
        /\ permCall.module \in MODULES /\ permCall.action \in ActionValue)
    => /\ permCall.result \in {"true", "false"}
       /\ permCall.result = "true"
            <=> \E i \in DOMAIN ROLE_PERMISSIONS[permCall.role][permCall.module] :
                    ROLE_PERMISSIONS[permCall.role][permCall.module][i] = permCall.action
       /\ (permCall.role = "IT_TECHNICIAN" /\ permCall.module = "assets")
            => (permCall.result = "true"
                    <=> permCall.action \in {"create", "read", "update"})

C1_Witness ==
    /\ permCall.fn = "hasPermission"
    /\ permCall.role = "IT_TECHNICIAN"
    /\ permCall.module = "assets"
    /\ permCall.action = "delete"
    /\ permCall.result = "false"

\* C2: for a role or a module that is no authored key of the matrix (any
\* string), hasPermission and canAccessModule return false and never throw.
C2_FailClosedAndTotal ==
    (permCall.fn \in {"hasPermission", "canAccessModule"}
        /\ (permCall.role \notin UserRole \/ permCall.module \notin MODULES))
    => permCall.result = "false"

(***************************************************************************)
(* BASE REPOSITORY  (src/src/services/audit.service.ts, BaseService)       *)
(***************************************************************************)

Tenants == {"t1", "t2"}
Users == {"u1"}
Values == {"a", "b"}

\* Document ids a collection can hold (Firestore auto-ids, bounded).
MaxDocs == 1
DocIds == 1..MaxDocs

\* Longest operations list handed to batchWrite.
MaxBatch == 2

ERR_TENANT == "Tenant ID must be set before performing operations"
ERR_NOT_FOUND == "No document to update"

\* getCollectionRef: the tenant segment of tenants/{tenantId}/{collectionName},
\* or the thrown error.
getCollectionRef_Fixed(tid) ==
    IF tid = NULL THEN [error |-> ERR_TENANT, tenant |-> NULL]
    ELSE [error |-> "none", tenant |-> "t1"]

getCollectionRef(tid) ==
    IF tid = NULL THEN [error |-> ERR_TENANT, tenant |-> NULL]
    ELSE [error |-> "none", tenant |-> tid]

\* getDocRef: the path of document `id` in the tenant's collection.
getDocRef(tid, id) ==
    LET ref == getCollectionRef(tid) IN
    [error |-> ref.error, path |-> <<ref.tenant, id>>]

\* addAuditFields: the fields written by a create (isNew) or an update.
addAuditFields(data, tid, userId, isNew) ==
    IF isNew
    THEN [val |-> data, tenant_id |-> tid, created_by |-> userId, updated_by |-> userId]
    ELSE [val |-> data, updated_by |-> userId]

\* updateDoc / batch.update: the given fields replace the stored ones.
Merge(doc, fields) ==
    [f \in DOMAIN doc |-> IF f \in DOMAIN fields THEN fields[f] ELSE doc[f]]

\* The id addDoc / doc(collectionRef) gives a new document of the collection.
HasFreeId(store, tenant) == \E id \in DocIds : <<tenant, id>> \notin DOMAIN store
FreshId(store, tenant) ==
    CHOOSE id \in DocIds :
        /\ <<tenant, id>> \notin DOMAIN store
        /\ \A other \in DocIds : <<tenant, other>> \notin DOMAIN store => id <= other

EmptyStore == [p \in {} |-> NULL]
Put(store, path, doc) ==
    [p \in DOMAIN store \cup {path} |-> IF p = path THEN doc ELSE store[p]]
Remove(store, path) == [p \in DOMAIN store \ {path} |-> store[p]]

\* One write of a Firestore write batch applied to the store; an update of a
\* document that does not exist fails.
ApplyWrite(store, w) ==
    CASE w.kind = "set" -> [ok |-> TRUE, store |-> Put(store, w.path, w.data)]
      [] w.kind = "update" ->
            IF w.path \in DOMAIN store
            THEN [ok |-> TRUE, store |-> Put(store, w.path, Merge(store[w.path], w.data))]
            ELSE [ok |-> FALSE, store |-> store]
      [] w.kind = "delete" -> [ok |-> TRUE, store |-> Remove(store, w.path)]

RECURSIVE ApplyWrites(_, _)
ApplyWrites(store, writes) ==
    IF writes = <<>> THEN [ok |-> TRUE, store |-> store]
    ELSE LET first == ApplyWrite(store, Head(writes)) IN
         IF first.ok THEN ApplyWrites(first.store, Tail(writes))
         ELSE [ok |-> FALSE, store |-> store]

\* batch.commit(): every write of the batch, or none of them.
Commit(store, writes) ==
    LET r == ApplyWrites(store, writes) IN
    IF r.ok THEN [error |-> "none", store |-> r.store]
    ELSE [error |-> ERR_NOT_FOUND, store |-> store]

RepoCall(op, error, result, touched, returned, n, applied) ==
    [op |-> op, error |-> error, result |-> result, touched |-> touched,
     returned |-> returned, n |-> n, applied |-> applied]

RepoInit ==
    /\ tenantId = NULL
    /\ docs = EmptyStore
    /\ repoCall = RepoCall("none", "none", "void", {}, {}, 0, 0)

\* A repository call leaves the other components alone.
RepoFrame == UNCHANGED <<permVars, stockVars, assetVars, maintVars, auditVars,
                         storeVars, userVars, navVars, entVars,
                         matrixVars,
                         adminVars,
                         projVars,
                         loginVars>>

\* setTenant(tenantId)
SetTenant(t) ==
    /\ tenantId' = t
    /\ repoCall' = RepoCall("setTenant", "none", "void", {}, {}, 0, 0)
    /\ UNCHANGED docs
    /\ RepoFrame

\* getById(id)
GetById(id) ==
    LET ref == getDocRef(tenantId, id) IN
    /\ repoCall' =
          IF ref.error # "none"
          THEN RepoCall("getById", ref.error, "error", {}, {}, 0, 0)
          ELSE IF ref.path \notin DOMAIN docs
          THEN RepoCall("getById", "none", "null", {ref.path[1]}, {}, 0, 0)
          ELSE RepoCall("getById", "none", "doc", {ref.path[1]},
                        {docs[ref.path].tenant_id}, 0, 0)
    /\ UNCHANGED <<tenantId, docs>>
    /\ RepoFrame

\* getAll(constraints): the documents of the tenant's collection.
GetAll ==
    LET ref == getCollectionRef(tenantId) IN
    /\ repoCall' =
          IF ref.error # "none"
          THEN RepoCall("getAll", ref.error, "error", {}, {}, 0, 0)
          ELSE RepoCall("getAll", "none", "list", {ref.tenant},
                        {docs[p].tenant_id : p \in {q \in DOMAIN docs : q[1] = ref.tenant}},
                        0, 0)
    /\ UNCHANGED <<tenantId, docs>>
    /\ RepoFrame

\* create(data, userId)
Create(data, userId) ==
    /\ LET docData == addAuditFields(data, tenantId, userId, TRUE)
           ref == getCollectionRef(tenantId) IN
       IF ref.error # "none"
       THEN /\ repoCall' = RepoCall("create", ref.error, "error", {}, {}, 0, 0)
            /\ UNCHANGED <<tenantId, docs>>
       ELSE /\ HasFreeId(docs, ref.tenant)
            /\ docs' = Put(docs, <<ref.tenant, FreshId(docs, ref.tenant)>>, docData)
            /\ repoCall' = RepoCall("create", "none", "doc", {ref.tenant},
                                    {docData.tenant_id}, 0, 0)
            /\ UNCHANGED tenantId
    /\ RepoFrame

\* update(id, data, userId)
Update(id, data, userId) ==
    /\ LET ref == getDocRef(tenantId, id)
           updateData == addAuditFields(data, tenantId, userId, FALSE) IN
       IF ref.error # "none"
       THEN /\ repoCall' = RepoCall("update", ref.error, "error", {}, {}, 0, 0)
            /\ UNCHANGED <<tenantId, docs>>
       ELSE LET done == Commit(docs, <<[kind |-> "update", path |-> ref.path,
                                        data |-> updateData]>>) IN
            /\ docs' = done.store
            /\ repoCall' = RepoCall("update", done.error,
                                    IF done.error = "none" THEN "void" ELSE "error",
                                    {ref.path[1]}, {}, 0, 0)
            /\ UNCHANGED tenantId
    /\ RepoFrame

\* delete(id)
Delete(id) ==
    /\ LET ref == getDocRef(tenantId, id) IN
       IF ref.error # "none"
       THEN /\ repoCall' = RepoCall("delete", ref.error, "error", {}, {}, 0, 0)
            /\ UNCHANGED <<tenantId, docs>>
       ELSE /\ docs' = Remove(docs, ref.path)
            /\ repoCall' = RepoCall("delete", "none", "void", {ref.path[1]}, {}, 0, 0)
            /\ UNCHANGED tenantId
    /\ RepoFrame

\* The entries a caller may list for batchWrite: well-formed ones, and ones
\* lacking a data, a userId or an id.  An id of 0 is a missing id.
BatchOps ==
    {[type |-> "create", id |-> 0, data |-> "b", userId |-> "u1"],
     [type |-> "create", id |-> 0, data |-> NULL, userId |-> "u1"],
     [type |-> "update", id |-> 1, data |-> "b", userId |-> "u1"],
     [type |-> "update", id |-> 1, data |-> "b", userId |-> NULL],
     [type |-> "delete", id |-> 1, data |-> NULL, userId |-> NULL],
     [type |-> "delete", id |-> 0, data |-> NULL, userId |-> NULL]}

BatchInputs == UNION {[1..n -> BatchOps] : n \in 0..MaxBatch}

\* The branch of batchWrite's loop an entry takes; "skip" when none matches.
BatchBranch(op) ==
    CASE op.type = "create" /\ op.data # NULL /\ op.userId # NULL -> "create"
      [] op.type = "update" /\ op.id # 0 /\ op.data # NULL /\ op.userId # NULL -> "update"
      [] op.type = "delete" /\ op.id # 0 -> "delete"
      [] OTHER -> "skip"

\* One iteration of batchWrite's loop: acc is the batch built so far.
BatchStep(acc, op, tid, store) ==
    LET branch == BatchBranch(op)
        ref == getCollectionRef(tid)
        free == {id \in DocIds : <<ref.tenant, id>> \notin DOMAIN store /\ id \notin acc.taken}
        newId == CHOOSE id \in free : \A other \in free : id <= other
    IN
    IF acc.error # "none" \/ branch = "skip" THEN acc
    ELSE IF ref.error # "none" THEN [acc EXCEPT !.error = ref.error]
    ELSE CASE branch = "create" ->
                [acc EXCEPT
                    !.writes = Append(@, [kind |-> "set", path |-> <<ref.tenant, newId>>,
                                          data |-> addAuditFields(op.data, tid, op.userId, TRUE)]),
                    !.taken = @ \cup {newId}]
           [] branch = "update" ->
                [acc EXCEPT
                    !.writes = Append(@, [kind |-> "update", path |-> getDocRef(tid, op.id).path,
                                          data |-> addAuditFields(op.data, tid, op.userId, FALSE)])]
           [] branch = "delete" ->
                [acc EXCEPT
                    !.writes = Append(@, [kind |-> "delete", path |-> getDocRef(tid, op.id).path,
                                          data |-> NULL])]

RECURSIVE BuildBatch(_, _, _, _)
BuildBatch(acc, ops, tid, store) ==
    IF ops = <<>> THEN acc
    ELSE BuildBatch(BatchStep(acc, Head(ops), tid, store), Tail(ops), tid, store)

\* Number of entries of the list that take the create branch.
Creates(ops) == Cardinality({i \in DOMAIN ops : BatchBranch(ops[i]) = "create"})

\* batchWrite(operations)
BatchWrite(ops) ==
    LET built == BuildBatch([error |-> "none", writes |-> <<>>, taken |-> {}],
                            ops, tenantId, docs) IN
    /\ tenantId # NULL =>
          Creates(ops) <= Cardinality({id \in DocIds : <<tenantId, id>> \notin DOMAIN docs})
    /\ IF built.error # "none"
       THEN /\ repoCall' = RepoCall("batchWrite", built.error, "error", {}, {}, Len(ops), 0)
            /\ UNCHANGED <<tenantId, docs>>
       ELSE LET done == Commit(docs, built.writes) IN
            /\ docs' = done.store
            /\ repoCall' = RepoCall("batchWrite", done.error,
                                    IF done.error = "none" THEN "void" ELSE "error",
                                    {built.writes[i].path[1] : i \in DOMAIN built.writes},
                                    {}, Len(ops),
                                    IF done.error = "none" THEN Len(built.writes) ELSE 0)
            /\ UNCHANGED tenantId
    /\ RepoFrame

RepoNext ==
    \/ \E t \in Tenants : SetTenant(t)
    \/ \E id \in DocIds : GetById(id)
    \/ GetAll
    \/ \E data \in Values, userId \in Users : Create(data, userId)
    \/ \E id \in DocIds, data \in Values, userId \in Users : Update(id, data, userId)
    \/ \E id \in DocIds : Delete(id)
    \/ \E ops \in BatchInputs : BatchWrite(ops)

RepoOps == {"getById", "getAll", "create", "update", "delete", "batchWrite"}

\* C3: on a repository whose setTenant was never called, every operation kind
\* fails with the tenant-not-set error (never the null of getById) and touches
\* no path of the store.
C3_UnboundAlwaysFails ==
    (tenantId = NULL /\ repoCall.op \in RepoOps)
    => /\ repoCall.error = ERR_TENANT
       /\ repoCall.result = "error"
       /\ repoCall.touched = {}

\* C4: every path an operation reads or writes lies under the tenant bound by
\* the latest setTenant, a document is stored under the tenant that was bound
\* when it was created, and getById / getAll return only such documents.
C4_TenantIsolation ==
    /\ [](/\ \A p \in DOMAIN docs : docs[p].tenant_id = p[1]
          /\ (tenantId # NULL /\ repoCall.op \in RepoOps)
                => /\ repoCall.touched \subseteq {tenantId}
                   /\ repoCall.returned \subseteq {tenantId})
    /\ [][\A p \in DOMAIN docs \cup DOMAIN docs' :
            (p \in DOMAIN docs /\ p \in DOMAIN docs' /\ docs[p] = docs'[p])
            \/ p[1] = tenantId]_vars

\* Rebound to t2 while t1 holds a document, getAll has read t2's collection.
C4_Witness ==
    /\ tenantId = "t2"
    /\ repoCall.op = "getAll"
    /\ repoCall.returned = {"t2"}
    /\ \E p \in DOMAIN docs : p[1] = "t1"

\* C7: batchWrite applies every listed operation or none of them.
C7_BatchAllOrNothing ==
    repoCall.op = "batchWrite" => repoCall.applied \in {0, repoCall.n}

(***************************************************************************)
(* STOCK SERVICE  (src/unnamed/part_007, StockService)                     *)
(***************************************************************************)

Offices == {"o1", "o2"}

\* The slots of in-flight StockService calls, the tenant the stock store binds
\* the service to, the largest quantity argument, and the number of stock
\* transactions after which no further call starts.
MaxQty == 2
MaxTx == 2
StockCallIds == {"c1", "c2"}
StockTenants == {"t1"}
Quantities == 1..MaxQty
\* The corrected quantities adjust is called with.
NewQuantities == {1}

ERR_STOCK_TENANT == "Tenant ID must be set"
ERR_INSUFFICIENT == "Insufficient stock"
ERR_INSUFFICIENT_SOURCE == "Insufficient stock in source office"

\* A call slot: op and pc say where the call stands ("done": returned or
\* threw, error says which); tenant is the tenant of the query it awaits;
\* batch is the write batch built so far.
IdleCall == [op |-> "none", pc |-> "done", office |-> NULL, to |-> NULL,
             quantity |-> 0, tenant |-> NULL, batch |-> <<>>, error |-> "none"]

StockInit ==
    /\ stockTenantId = NULL
    /\ stockDocs = <<>>
    /\ transactions = EmptyBag
    /\ stockCalls = [c \in StockCallIds |-> IdleCall]

\* A stock call leaves the other components alone.
StockFrame == UNCHANGED <<permVars, repoVars, assetVars, maintVars, auditVars,
                         storeVars, userVars, navVars, entVars,
                         matrixVars,
                         adminVars,
                         projVars,
                         loginVars>>

\* StockService.setTenant
StockSetTenant(t) ==
    /\ stockTenantId' = t
    /\ UNCHANGED <<stockDocs, transactions, stockCalls>>
    /\ StockFrame

\* getConsumableStock: the index in stockDocs of the first office_stock
\* document of the tenant for the office (snapshot.docs[0]), 0 when none.
getConsumableStock(tenant, officeId) ==
    LET hits == {i \in DOMAIN stockDocs :
                    stockDocs[i].tenant = tenant /\ stockDocs[i].office = officeId} IN
    IF hits = {} THEN 0 ELSE CHOOSE i \in hits : \A k \in hits : i <= k

\* !existingStock || existingStock.quantity < quantity
Insufficient_OffByOne(existing, quantity) ==
    existing = 0 \/ stockDocs[existing].quantity + 1 < quantity

Insufficient(existing, quantity) ==
    existing = 0 \/ stockDocs[existing].quantity < quantity

\* Writes of a batch.
IncWrite(tenant, id, by) ==
    [kind |-> "increment", tenant |-> tenant, id |-> id, office |-> NULL,
     type |-> NULL, quantity |-> by]
SetWrite(tenant, id, quantity) ==
    [kind |-> "set", tenant |-> tenant, id |-> id, office |-> NULL,
     type |-> NULL, quantity |-> quantity]
NewStockWrite(tenant, officeId, quantity) ==
    [kind |-> "stock", tenant |-> tenant, id |-> 0, office |-> officeId,
     type |-> NULL, quantity |-> quantity]
TxWrite(tenant, officeId, type, quantity) ==
    [kind |-> "transaction", tenant |-> tenant, id |-> 0, office |-> officeId,
     type |-> type, quantity |-> quantity]

\* The call starts only while the ledger is below MaxTx; the calls being
\* alike, one that starts while none is in flight takes the slot c1.
CanStart(c) ==
    /\ stockCalls[c].pc = "done"
    /\ BagCardinality(transactions) < MaxTx
    /\ c = "c2" => stockCalls["c1"].pc # "done"

\* The synchronous head of restock / issue / transfer / adjust: the tenant
\* guard, then
\* the first getConsumableStock query is sent.  The slot after it.
StockInvoke(op, officeId, toOfficeId, quantity) ==
    IF stockTenantId = NULL
    THEN [IdleCall EXCEPT !.op = op, !.office = officeId, !.to = toOfficeId,
                          !.quantity = quantity, !.error = ERR_STOCK_TENANT]
    ELSE [IdleCall EXCEPT !.op = op, !.pc = "read", !.office = officeId,
                          !.to = toOfficeId, !.quantity = quantity,
                          !.tenant = stockTenantId]

\* restock(officeId, consumableId, quantity, userId) is called.
Restock(c, officeId, quantity) ==
    /\ CanStart(c)
    /\ stockCalls' = [stockCalls EXCEPT ![c] =
                        StockInvoke("restock", officeId, NULL, quantity)]
    /\ UNCHANGED <<stockTenantId, stockDocs, transactions>>
    /\ StockFrame

\* issue(officeId, consumableId, quantity, issuedTo, userId) is called.
Issue(c, officeId, quantity) ==
    /\ CanStart(c)
    /\ stockCalls' = [stockCalls EXCEPT ![c] =
                        StockInvoke("issue", officeId, NULL, quantity)]
    /\ UNCHANGED <<stockTenantId, stockDocs, transactions>>
    /\ StockFrame

\* transfer(fromOfficeId, toOfficeId, consumableId, quantity, userId) is called.
Transfer(c, fromOfficeId, toOfficeId, quantity) ==
    /\ CanStart(c)
    /\ stockCalls' = [stockCalls EXCEPT ![c] =
                        StockInvoke("transfer", fromOfficeId, toOfficeId, quantity)]
    /\ UNCHANGED <<stockTenantId, stockDocs, transactions>>
    /\ StockFrame

\* adjust(officeId, consumableId, newQuantity, userId, reason) is called.
Adjust(c, officeId, newQuantity) ==
    /\ CanStart(c)
    /\ stockCalls' = [stockCalls EXCEPT ![c] =
                        StockInvoke("adjust", officeId, NULL, newQuantity)]
    /\ UNCHANGED <<stockTenantId, stockDocs, transactions>>
    /\ StockFrame

\* restock after its read: update the record found or create one, add the
\* transaction record, send the commit.
RestockRead(c) ==
    LET call == stockCalls[c]
        existing == getConsumableStock(call.tenant, call.office) IN
    /\ call.op = "restock" /\ call.pc = "read"
    /\ stockCalls' = [stockCalls EXCEPT ![c] = [call EXCEPT
          !.pc = "commit",
          !.batch = <<IF existing # 0
                      THEN IncWrite(stockTenantId, stockDocs[existing].id, call.quantity)
                      ELSE NewStockWrite(stockTenantId, call.office, call.quantity),
                      TxWrite(stockTenantId, call.office, "restock", call.quantity)>>]]
    /\ UNCHANGED <<stockTenantId, stockDocs, transactions>>
    /\ StockFrame

\* issue after its read: throw when the stock is insufficient, else build the
\* decrement and the transaction record and send the commit.
IssueRead(c) ==
    LET call == stockCalls[c]
        existing == getConsumableStock(call.tenant, call.office) IN
    /\ call.op = "issue" /\ call.pc = "read"
    /\ stockCalls' = [stockCalls EXCEPT ![c] =
          IF Insufficient(existing, call.quantity)
          THEN [call EXCEPT !.pc = "done", !.error = ERR_INSUFFICIENT]
          ELSE [call EXCEPT
                  !.pc = "commit",
                  !.batch = <<IncWrite(stockTenantId, stockDocs[existing].id, 0 - call.quantity),
                              TxWrite(stockTenantId, call.office, "issue", call.quantity)>>]]
    /\ UNCHANGED <<stockTenantId, stockDocs, transactions>>
    /\ StockFrame

\* transfer after its source read: throw when the source is insufficient,
\* else add the source decrement and query the destination.
TransferReadSource(c) ==
    LET call == stockCalls[c]
        sourceStock == getConsumableStock(call.tenant, call.office) IN
    /\ call.op = "transfer" /\ call.pc = "read"
    /\ stockCalls' = [stockCalls EXCEPT ![c] =
          IF Insufficient(sourceStock, call.quantity)
          THEN [call EXCEPT !.pc = "done", !.error = ERR_INSUFFICIENT_SOURCE]
          ELSE [call EXCEPT
                  !.pc = "readDest",
                  !.tenant = stockTenantId,
                  !.batch = <<IncWrite(stockTenantId, stockDocs[sourceStock].id,
                                       0 - call.quantity)>>]]
    /\ UNCHANGED <<stockTenantId, stockDocs, transactions>>
    /\ StockFrame

\* transfer after its destination read: update or create the destination
\* record, add both transaction records, send the commit.
TransferReadDest(c) ==
    LET call == stockCalls[c]
        destStock == getConsumableStock(call.tenant, call.to) IN
    /\ call.op = "transfer" /\ call.pc = "readDest"
    /\ stockCalls' = [stockCalls EXCEPT ![c] = [call EXCEPT
          !.pc = "commit",
          !.batch = call.batch \o
              <<IF destStock # 0
                THEN IncWrite(stockTenantId, stockDocs[destStock].id, call.quantity)
                ELSE NewStockWrite(stockTenantId, call.to, call.quantity),
                TxWrite(stockTenantId, call.office, "transfer_out", call.quantity),
                TxWrite(stockTenantId, call.to, "transfer_in", call.quantity)>>]]
    /\ UNCHANGED <<stockTenantId, stockDocs, transactions>>
    /\ StockFrame

\* adjust after its read: set the quantity of the record found or create one
\* with it, add the adjustment record with the difference from the quantity
\* read, send the commit.
AdjustRead(c) ==
    LET call == stockCalls[c]
        existingStock == getConsumableStock(call.tenant, call.office)
        oldQuantity == IF existingStock = 0 THEN 0
                       ELSE stockDocs[existingStock].quantity
        difference == call.quantity - oldQuantity IN
    /\ call.op = "adjust" /\ call.pc = "read"
    /\ stockCalls' = [stockCalls EXCEPT ![c] = [call EXCEPT
          !.pc = "commit",
          !.batch = <<IF existingStock # 0
                      THEN SetWrite(stockTenantId, stockDocs[existingStock].id,
                                    call.quantity)
                      ELSE NewStockWrite(stockTenantId, call.office, call.quantity),
                      TxWrite(stockTenantId, call.office, "adjustment", difference)>>]]
    /\ UNCHANGED <<stockTenantId, stockDocs, transactions>>
    /\ StockFrame

\* The office_stock documents after one write; a new document takes the
\* position `pos` of the query order (its auto-id is random).
StockAfter(sd, w, pos) ==
    CASE w.kind = "increment" ->
            [i \in DOMAIN sd |->
                IF sd[i].tenant = w.tenant /\ sd[i].id = w.id
                THEN [sd[i] EXCEPT !.quantity = @ + w.quantity] ELSE sd[i]]
      [] w.kind = "set" ->
            [i \in DOMAIN sd |->
                IF sd[i].tenant = w.tenant /\ sd[i].id = w.id
                THEN [sd[i] EXCEPT !.quantity = w.quantity] ELSE sd[i]]
      [] w.kind = "stock" ->
            LET doc == [id |-> Len(sd) + 1, tenant |-> w.tenant, office |-> w.office,
                        quantity |-> w.quantity] IN
            SubSeq(sd, 1, pos - 1) \o <<doc>> \o SubSeq(sd, pos, Len(sd))
      [] OTHER -> sd

RECURSIVE StockAfterAll(_, _, _)
StockAfterAll(sd, batch, pos) ==
    IF batch = <<>> THEN sd
    ELSE StockAfterAll(StockAfter(sd, Head(batch), pos), Tail(batch), pos)

RECURSIVE TxAfterAll(_, _)
TxAfterAll(txs, batch) ==
    IF batch = <<>> THEN txs
    ELSE TxAfterAll(
            IF Head(batch).kind = "transaction"
            THEN txs (+) SetToBag({[tenant |-> Head(batch).tenant, office |-> Head(batch).office,
                                    type |-> Head(batch).type,
                                    quantity |-> Head(batch).quantity]})
            ELSE txs,
            Tail(batch))

\* A batch.update of a document that does not exist fails the whole batch.
BatchApplies(batch) ==
    \A k \in DOMAIN batch :
        batch[k].kind \in {"increment", "set"} =>
            \E i \in DOMAIN stockDocs :
                stockDocs[i].tenant = batch[k].tenant /\ stockDocs[i].id = batch[k].id

\* batch.commit() reaches the store: all the writes of the batch, or none.
StockCommit(c) ==
    LET call == stockCalls[c] IN
    /\ call.pc = "commit"
    /\ IF BatchApplies(call.batch)
       THEN /\ \E pos \in 1..(Len(stockDocs) + 1) :
                  stockDocs' = StockAfterAll(stockDocs, call.batch, pos)
            /\ transactions' = TxAfterAll(transactions, call.batch)
            /\ stockCalls' = [stockCalls EXCEPT ![c] = IdleCall]
       ELSE /\ stockCalls' = [stockCalls EXCEPT ![c] =
                                [call EXCEPT !.pc = "done", !.batch = <<>>,
                                             !.error = ERR_NOT_FOUND]]
            /\ UNCHANGED <<stockDocs, transactions>>
    /\ UNCHANGED stockTenantId
    /\ StockFrame

StockNext ==
    \/ \E t \in StockTenants : StockSetTenant(t)
    \/ \E c \in StockCallIds, o \in Offices, q \in Quantities : Restock(c, o, q)
    \/ \E c \in StockCallIds, o \in Offices, q \in Quantities : Issue(c, o, q)
    \/ \E c \in StockCallIds, o \in Offices, t \in Offices, q \in Quantities :
          Transfer(c, o, t, q)
    \/ \E c \in StockCallIds, o \in Offices, q \in NewQuantities : Adjust(c, o, q)
    \/ \E c \in StockCallIds : RestockRead(c)
    \/ \E c \in StockCallIds : IssueRead(c)
    \/ \E c \in StockCallIds : TransferReadSource(c)
    \/ \E c \in StockCallIds : TransferReadDest(c)
    \/ \E c \in StockCallIds : AdjustRead(c)
    \/ \E c \in StockCallIds : StockCommit(c)

\* C5: an issue, or a transfer out of the source office, that finds no stock
\* record or a balance below the quantity fails with the insufficient-stock
\* error, and that step changes no balance and writes no transaction record.
C5_OverIssueRejectedInFull ==
    [][\A c \in StockCallIds :
        (/\ stockCalls[c].op \in {"issue", "transfer"}
         /\ stockCalls[c].pc = "read"
         /\ stockCalls'[c] # stockCalls[c]
         /\ LET rec == getConsumableStock(stockCalls[c].tenant, stockCalls[c].office) IN
            rec = 0 \/ stockCalls[c].quantity > stockDocs[rec].quantity)
        => /\ stockCalls'[c].pc = "done"
           /\ stockCalls'[c].error \in {ERR_INSUFFICIENT, ERR_INSUFFICIENT_SOURCE}
           /\ stockCalls'[c].batch = <<>>
           /\ UNCHANGED <<stockDocs, transactions>>]_vars

\* An issue of more than the positive balance of its office was rejected.
C5_Witness ==
    \E c \in StockCallIds :
        /\ stockCalls[c].op = "issue"
        /\ stockCalls[c].error = ERR_INSUFFICIENT
        /\ \E i \in DOMAIN stockDocs :
              /\ stockDocs[i].office = stockCalls[c].office
              /\ stockDocs[i].tenant = stockTenantId
              /\ stockDocs[i].quantity > 0
              /\ stockDocs[i].quantity < stockCalls[c].quantity

\* C6: every office-stock quantity is at least zero in every reachable state.
C6_StockNeverNegative ==
    \A i \in DOMAIN stockDocs : stockDocs[i].quantity >= 0

\* What a stock transaction adds to the balance of its office.
Signed(tx) ==
    CASE tx.type \in {"restock", "transfer_in", "adjustment"} -> tx.quantity
      [] tx.type \in {"issue", "transfer_out"} -> 0 - tx.quantity

\* The signed sum of the transactions of a bag.
RECURSIVE LedgerSum(_)
LedgerSum(txs) ==
    IF DOMAIN txs = {} THEN 0
    ELSE LET tx == CHOOSE e \in DOMAIN txs : TRUE IN
         txs[tx] * Signed(tx)
            + LedgerSum([e \in DOMAIN txs \ {tx} |-> txs[e]])

\* The transactions of a tenant's office.
TransactionsOf(tenant, officeId) ==
    LET hits == {e \in DOMAIN transactions :
                    e.tenant = tenant /\ e.office = officeId} IN
    [e \in hits |-> transactions[e]]

\* C28: while no stock operation is in flight, every office has at most one
\* office-stock record, and the record's quantity is the signed sum of the
\* office's stock transactions.
C28_LedgerMatchesBalances ==
    (\A c \in StockCallIds : stockCalls[c].pc = "done")
    => \A tenant \in StockTenants, officeId \in Offices :
          LET records == {i \in DOMAIN stockDocs :
                             /\ stockDocs[i].tenant = tenant
                             /\ stockDocs[i].office = officeId} IN
          /\ Cardinality(records) <= 1
          /\ \A i \in records :
                stockDocs[i].quantity = LedgerSum(TransactionsOf(tenant, officeId))

(***************************************************************************)
(* ASSET SERVICE  (src/src/services/asset.service.ts, AssetService)        *)
(***************************************************************************)

\* The tenants, asset ids (Firestore auto-ids), users and acting users of the
\* asset store, the slots of in-flight AssetService calls, and the number of
\* asset events after which no further call starts.
AssetTenants == {"t1", "t2"}
AssetIds == {"a1", "a2"}
AssetUsers == {"u1", "u2"}
AssetActors == {"u1"}
AssetCallIds == {"k1", "k2"}
MaxEvents == 3

ERR_ASSET_TENANT == "Tenant ID must be set"
ERR_ASSET_NOT_FOUND == "Asset not found"
ERR_INVALID_DATA == "Unsupported field value: undefined"

\* What the Firestore instance does with a field whose value is undefined:
\* drop it (ignoreUndefinedProperties) or throw from batch.set.
UndefinedOutcomes == {"ignored", "rejected"}

\* The event type each operation records.
AssetOps == {"createWithEvent", "assignToUser", "unassign", "transferToOffice",
             "dispose"}
EventTypeOf == [createWithEvent  |-> "created",
                assignToUser     |-> "assigned",
                unassign         |-> "unassigned",
                transferToOffice |-> "transferred",
                dispose          |-> "disposed"]

\* A call slot: pc says where the call stands ("done": returned or threw,
\* error says which; "read": awaiting getById; "commit": awaiting
\* batch.commit); tenant is the tenant of the path the awaited request names.
AssetIdle(error) ==
    [op |-> "none", pc |-> "done", tenant |-> NULL, assetId |-> NULL,
     actor |-> NULL, userId |-> NULL, officeId |-> NULL, error |-> error]
AssetCall(op, pc, tenant, assetId, actor, userId, officeId) ==
    [op |-> op, pc |-> pc, tenant |-> tenant, assetId |-> assetId,
     actor |-> actor, userId |-> userId, officeId |-> officeId,
     error |-> "none"]

AssetInit ==
    /\ assetTenantId = NULL
    /\ assets = EmptyStore
    /\ assetEvents = EmptyBag
    /\ assetCalls = [c \in AssetCallIds |-> AssetIdle("none")]

\* An asset call leaves the other components alone.
AssetFrame == UNCHANGED <<permVars, repoVars, stockVars, maintVars, auditVars,
                         storeVars, userVars, navVars, entVars,
                         matrixVars,
                         adminVars,
                         projVars,
                         loginVars>>

\* setTenant (inherited from BaseService)
AssetSetTenant(t) ==
    /\ assetTenantId' = t
    /\ UNCHANGED <<assets, assetEvents, assetCalls>>
    /\ AssetFrame

\* A call starts in a free slot while the event log has room for its event.
AssetCanStart(c) ==
    /\ assetCalls[c].pc = "done"
    /\ BagCardinality(assetEvents)
         + Cardinality({k \in AssetCallIds : assetCalls[k].pc # "done"})
         < MaxEvents

\* doc(collection(..)): a new auto-id, one no document and no pending create has.
FreeAssetIds ==
    {id \in AssetIds :
        /\ \A t \in AssetTenants : <<t, id>> \notin DOMAIN assets
        /\ \A k \in AssetCallIds :
              ~(assetCalls[k].pc # "done" /\ assetCalls[k].op = "createWithEvent"
                /\ assetCalls[k].assetId = id)}

\* The fields of the asset document each operation writes.
AssetFields(call) ==
    CASE call.op = "createWithEvent" ->
           [status |-> "available", assigned_to |-> NULL,
            office_id |-> call.officeId, created_by |-> call.actor,
            updated_by |-> call.actor]
      [] call.op = "assignToUser" ->
           [assigned_to |-> call.userId, status |-> "in_use",
            updated_by |-> call.actor]
      [] call.op = "unassign" ->
           [assigned_to |-> NULL, status |-> "available",
            updated_by |-> call.actor]
      [] call.op = "transferToOffice" ->
           [office_id |-> call.officeId, assigned_to |-> NULL,
            status |-> "available", updated_by |-> call.actor]
      [] call.op = "dispose" ->
           [status |-> "disposed", assigned_to |-> NULL,
            updated_by |-> call.actor]

\* The event document each operation sets under its asset.
EventData_ByTarget(call) ==
    [tenant_id |-> call.tenant, asset_id |-> call.assetId,
     event_type |-> EventTypeOf[call.op], created_by |-> call.userId]
EventData(call) ==
    [tenant_id |-> call.tenant, asset_id |-> call.assetId,
     event_type |-> EventTypeOf[call.op], created_by |-> call.actor]

\* The tenant guard every operation starts with, then the operation's
\* synchronous head.
AssetInvoke(c, started) ==
    /\ AssetCanStart(c)
    /\ assetCalls' =
         [assetCalls EXCEPT
            ![c] = IF assetTenantId = NULL THEN AssetIdle(ERR_ASSET_TENANT)
                   ELSE started]
    /\ UNCHANGED <<assetTenantId, assets, assetEvents>>

\* createWithEvent(data, userId): both documents are set in the batch before
\* the first await, which is the commit.
CreateWithEvent ==
    \E c \in AssetCallIds, id \in FreeAssetIds, officeId \in Offices,
       userId \in AssetActors :
        /\ AssetInvoke(c, AssetCall("createWithEvent", "commit", assetTenantId, id,
                                    userId, NULL, officeId))
        /\ AssetFrame

\* assignToUser(assetId, userId, assignedBy): awaits getById first.
AssignToUser ==
    \E c \in AssetCallIds, assetId \in AssetIds, userId \in AssetUsers,
       assignedBy \in AssetActors :
        /\ AssetInvoke(c, AssetCall("assignToUser", "read", assetTenantId, assetId,
                                    assignedBy, userId, NULL))
        /\ AssetFrame

\* unassign(assetId, unassignedBy): awaits getById first.
Unassign ==
    \E c \in AssetCallIds, assetId \in AssetIds, unassignedBy \in AssetActors :
        /\ AssetInvoke(c, AssetCall("unassign", "read", assetTenantId, assetId,
                                    unassignedBy, NULL, NULL))
        /\ AssetFrame

\* transferToOffice(assetId, toOfficeId, transferredBy, notes): awaits getById
\* first.
TransferToOffice ==
    \E c \in AssetCallIds, assetId \in AssetIds, toOfficeId \in Offices,
       transferredBy \in AssetActors :
        /\ AssetInvoke(c, AssetCall("transferToOffice", "read", assetTenantId,
                                    assetId, transferredBy, NULL, toOfficeId))
        /\ AssetFrame

\* dispose(assetId, reason, disposalValue, disposedBy): no read; the batch is
\* built before the first await. Without a disposalValue the event's metadata
\* holds an undefined field.
Dispose ==
    \E c \in AssetCallIds, assetId \in AssetIds, disposedBy \in AssetActors,
       hasValue \in BOOLEAN, undef \in UndefinedOutcomes :
        /\ AssetInvoke(c,
               IF ~hasValue /\ undef = "rejected" THEN AssetIdle(ERR_INVALID_DATA)
               ELSE AssetCall("dispose", "commit", assetTenantId, assetId,
                              disposedBy, NULL, NULL))
        /\ AssetFrame

\* getById (inherited): <<the document at the path>>, or <<>> for null.
AssetGetById(tenant, assetId) ==
    IF <<tenant, assetId>> \in DOMAIN assets THEN <<assets[<<tenant, assetId>>]>>
    ELSE <<>>

\* from_user_id: asset.assigned_to || undefined, in the events of assignToUser
\* and unassign.
HasUndefinedField(call, asset) ==
    call.op \in {"assignToUser", "unassign"} /\ asset.assigned_to = NULL

\* getById answers an assignToUser, unassign or transferToOffice: 'Asset not
\* found', or the batch is built on the paths of the tenant bound now.
AssetRead ==
    \E c \in AssetCallIds, undef \in UndefinedOutcomes :
        LET call == assetCalls[c]
            asset == AssetGetById(call.tenant, call.assetId)
        IN  /\ call.pc = "read"
            /\ assetCalls' =
                 [assetCalls EXCEPT
                    ![c] = IF asset = <<>> THEN AssetIdle(ERR_ASSET_NOT_FOUND)
                           ELSE IF HasUndefinedField(call, asset[1])
                                   /\ undef = "rejected"
                                THEN AssetIdle(ERR_INVALID_DATA)
                           ELSE [call EXCEPT !.pc = "commit",
                                             !.tenant = assetTenantId]]
            /\ UNCHANGED <<assetTenantId, assets, assetEvents>>
            /\ AssetFrame

\* batch.commit(): the asset write and the event set are applied together, or
\* (update of a missing asset) not at all.
AssetBatchApplies(call) ==
    call.op = "createWithEvent" \/ <<call.tenant, call.assetId>> \in DOMAIN assets

AssetAfter(call) ==
    LET path == <<call.tenant, call.assetId>>
    IN  IF call.op = "createWithEvent" THEN Put(assets, path, AssetFields(call))
        ELSE Put(assets, path, Merge(assets[path], AssetFields(call)))

AssetCommit ==
    \E c \in AssetCallIds :
        LET call == assetCalls[c]
        IN  /\ call.pc = "commit"
            /\ IF AssetBatchApplies(call)
               THEN /\ assets' = AssetAfter(call)
                    /\ assetEvents' = assetEvents (+) SetToBag({EventData(call)})
                    /\ assetCalls' = [assetCalls EXCEPT ![c] = AssetIdle("none")]
               ELSE /\ assetCalls' =
                         [assetCalls EXCEPT ![c] = AssetIdle(ERR_NOT_FOUND)]
                    /\ UNCHANGED <<assets, assetEvents>>
            /\ UNCHANGED assetTenantId
            /\ AssetFrame

\* delete (inherited from BaseService): removes the asset document only.
AssetDelete ==
    \E id \in AssetIds :
        /\ assetTenantId # NULL
        /\ <<assetTenantId, id>> \in DOMAIN assets
        /\ assets' = Remove(assets, <<assetTenantId, id>>)
        /\ UNCHANGED <<assetTenantId, assetEvents, assetCalls>>
        /\ AssetFrame

\* getEvents(assetId): the documents of tenants/{tenant}/assets/{assetId}/asset_events.
getEvents(events, tenant, assetId) ==
    {e \in BagToSet(events) : e.tenant_id = tenant /\ e.asset_id = assetId}

AssetBind == \E t \in AssetTenants : AssetSetTenant(t)

AssetNext ==
    \/ AssetBind
    \/ CreateWithEvent
    \/ AssignToUser
    \/ Unassign
    \/ TransferToOffice
    \/ Dispose
    \/ AssetRead
    \/ AssetCommit
    \/ AssetDelete

\* C29: every request of one assignToUser, unassign or transferToOffice call
\* names the tenant that was bound when the call started: from its read to
\* its commit the call stays on the paths of one tenant, whatever setTenant
\* does meanwhile.
C29_CallStaysInOneTenant ==
    [][\A c \in AssetCallIds :
          (assetCalls[c].pc # "done" /\ assetCalls'[c].pc # "done")
             => assetCalls'[c].tenant = assetCalls[c].tenant
      ]_vars

\* A call of slot c returns or throws in this step / returns.
AssetFinished(c) == assetCalls[c].pc # "done" /\ assetCalls'[c].pc = "done"
AssetSucceeded(c) == AssetFinished(c) /\ assetCalls'[c].error = "none"

\* The step writes the asset document of the call of slot c and adds exactly
\* one event of the operation's type, made by the acting user, under that
\* asset, and nothing else.
WroteBoth(c) ==
    LET call == assetCalls[c]
        path == <<call.tenant, call.assetId>>
    IN  /\ path \in DOMAIN assets'
        /\ assets'[path].updated_by = call.actor
        /\ \A f \in DOMAIN AssetFields(call) :
              assets'[path][f] = AssetFields(call)[f]
        /\ DOMAIN assets' = DOMAIN assets \cup {path}
        /\ \A q \in DOMAIN assets \ {path} : assets'[q] = assets[q]
        /\ \E e \in BagToSet(assetEvents') :
              /\ e.event_type = EventTypeOf[call.op]
              /\ e.created_by = call.actor
              /\ e.tenant_id = call.tenant
              /\ e.asset_id = call.assetId
              /\ assetEvents' = assetEvents (+) SetToBag({e})

\* C8: a successful createWithEvent, assignToUser, unassign, transferToOffice
\* or dispose makes its asset write and exactly one event of the matching
\* type, with created_by the acting user, in one step; a call that fails
\* writes neither; no event appears in any other step; and once
\* createWithEvent has returned, getEvents of the new asset under the same
\* tenant holds the 'created' event made by the creating user.
C8_AssetAndEventTogether ==
    [][/\ \A c \in AssetCallIds :
            /\ AssetSucceeded(c) => WroteBoth(c)
            /\ (AssetFinished(c) /\ ~AssetSucceeded(c))
                  => (assets' = assets /\ assetEvents' = assetEvents)
            /\ (AssetSucceeded(c) /\ assetCalls[c].op = "createWithEvent")
                  => \E e \in getEvents(assetEvents', assetCalls[c].tenant,
                                        assetCalls[c].assetId) :
                        /\ e.event_type = "created"
                        /\ e.created_by = assetCalls[c].actor
       /\ (assetEvents' # assetEvents) => \E c \in AssetCallIds : AssetSucceeded(c)
       /\ (assets' # assets /\ DOMAIN assets \subseteq DOMAIN assets')
             => \E c \in AssetCallIds : AssetSucceeded(c)
      ]_vars

\* C8 witness: an asset assigned by one user to another, with the 'created'
\* and the 'assigned' event both recorded under it.
C8_Witness ==
    \E p \in DOMAIN assets :
        /\ assets[p].status = "in_use"
        /\ assets[p].assigned_to = "u2"
        /\ assets[p].updated_by = "u1"
        /\ \E e \in getEvents(assetEvents, p[1], p[2]) :
              e.event_type = "assigned" /\ e.created_by = "u1"
        /\ \E e \in getEvents(assetEvents, p[1], p[2]) : e.event_type = "created"

\* C13: a disposed asset keeps status disposed and has no assignee, whatever
\* assignToUser, unassign, transferToOffice or dispose call comes later.
C13_DisposedIsTerminal ==
    [][\A p \in DOMAIN assets :
          (assets[p].status = "disposed" /\ p \in DOMAIN assets')
             => /\ assets'[p].status = "disposed"
                /\ assets'[p].assigned_to = NULL
      ]_vars

(***************************************************************************)
(* MAINTENANCE SERVICE  (src/src/services/maintenance.service.ts)          *)
(***************************************************************************)

MaintenanceStatus == {"open", "in_progress", "waiting_parts", "completed",
                      "cancelled"}

\* The tenant and the ticket ids (Firestore auto-ids) of the ticket store, the
\* technicians, and the last reading of the clock.
MaintTenants == {"t1"}
TicketIds == {"m1", "m2"}
Technicians == {"u1"}
MaxTime == 3

\* A timestamp field that is not set.
NoTime == 0

\* The resolutionNotes a caller passes to complete (the empty string among
\* them) and the reasons it passes to cancel.
ResolutionNotes == {"", "fixed"}
CancelReasons == {"duplicate"}

MaintLog(op, ticketId, error) == [op |-> op, ticketId |-> ticketId, error |-> error]

MaintInit ==
    /\ maintTenantId = NULL
    /\ tickets = EmptyStore
    /\ ticketLog = MaintLog("none", NULL, "none")
    /\ now = 1

\* A maintenance call leaves the other components alone.
MaintFrame == UNCHANGED <<permVars, repoVars, stockVars, assetVars, auditVars,
                         storeVars, userVars, navVars, entVars,
                         matrixVars,
                         adminVars,
                         projVars,
                         loginVars>>

\* setTenant (inherited from BaseService)
MaintSetTenant(t) ==
    /\ maintTenantId' = t
    /\ ticketLog' = MaintLog("setTenant", NULL, "none")
    /\ UNCHANGED <<tickets, now>>
    /\ MaintFrame

MaintBind == \E t \in MaintTenants : MaintSetTenant(t)

\* Timestamp.now() moves on.
Tick ==
    /\ now < MaxTime
    /\ now' = now + 1
    /\ UNCHANGED <<maintTenantId, tickets, ticketLog>>
    /\ MaintFrame

\* createTicket(data, userId): status is data.status || 'open' (callers pass
\* no status or 'open'); the document is added by the inherited create.
CreateTicket ==
    \E status \in {NULL, "open"} :
        /\ IF maintTenantId = NULL
           THEN /\ ticketLog' = MaintLog("createTicket", NULL, ERR_TENANT)
                /\ UNCHANGED tickets
           ELSE \E id \in TicketIds :
                  /\ <<maintTenantId, id>> \notin DOMAIN tickets
                  /\ tickets' =
                       Put(tickets, <<maintTenantId, id>>,
                           [status |-> IF status = NULL THEN "open" ELSE status,
                            assigned_to |-> NULL,
                            started_at |-> NoTime,
                            completed_at |-> NoTime,
                            resolution_notes |-> NULL])
                  /\ ticketLog' = MaintLog("createTicket", id, "none")
        /\ UNCHANGED <<maintTenantId, now>>
        /\ MaintFrame

\* The inherited update(id, data, userId) on the ticket collection: the tenant
\* guard of getDocRef, then updateDoc, which fails on a missing document and
\* otherwise merges the fields.
MaintUpdate(op, ticketId, fields) ==
    LET path == <<maintTenantId, ticketId>>
    IN  /\ IF maintTenantId = NULL
           THEN /\ ticketLog' = MaintLog(op, ticketId, ERR_TENANT)
                /\ UNCHANGED tickets
           ELSE IF path \notin DOMAIN tickets
           THEN /\ ticketLog' = MaintLog(op, ticketId, ERR_NOT_FOUND)
                /\ UNCHANGED tickets
           ELSE /\ tickets' = Put(tickets, path, Merge(tickets[path], fields))
                /\ ticketLog' = MaintLog(op, ticketId, "none")
        /\ UNCHANGED <<maintTenantId, now>>

\* The fields assign writes.
AssignFields(technicianId) ==
    [assigned_to |-> technicianId, status |-> "in_progress"]

\* assign(ticketId, technicianId, assignedBy)
Assign ==
    \E ticketId \in TicketIds, technicianId \in Technicians :
        /\ MaintUpdate("assign", ticketId, AssignFields(technicianId))
        /\ MaintFrame

\* startWork(ticketId, userId)
StartWork ==
    \E ticketId \in TicketIds :
        /\ MaintUpdate("startWork", ticketId,
                       [status |-> "in_progress", started_at |-> now])
        /\ MaintFrame

\* waitingForParts(ticketId, userId)
WaitingForParts ==
    \E ticketId \in TicketIds :
        /\ MaintUpdate("waitingForParts", ticketId, [status |-> "waiting_parts"])
        /\ MaintFrame

\* complete(ticketId, resolutionNotes, actualCost, rootCause, userId): without
\* an actualCost or a rootCause the update holds an undefined field.
Complete ==
    \E ticketId \in TicketIds, resolutionNotes \in ResolutionNotes,
       hasDetails \in BOOLEAN, undef \in UndefinedOutcomes :
        /\ IF ~hasDetails /\ undef = "rejected" /\ maintTenantId # NULL
           THEN /\ ticketLog' = MaintLog("complete", ticketId, ERR_INVALID_DATA)
                /\ UNCHANGED <<maintTenantId, tickets, now>>
           ELSE MaintUpdate("complete", ticketId,
                            [status |-> "completed", completed_at |-> now,
                             resolution_notes |-> resolutionNotes])
        /\ MaintFrame

\* cancel(ticketId, reason, userId)
Cancel ==
    \E ticketId \in TicketIds, reason \in CancelReasons :
        /\ MaintUpdate("cancel", ticketId,
                       [status |-> "cancelled",
                        resolution_notes |-> "Cancelled: " \o reason])
        /\ MaintFrame

MaintNext ==
    \/ MaintBind
    \/ Tick
    \/ CreateTicket
    \/ Assign
    \/ StartWork
    \/ WaitingForParts
    \/ Complete
    \/ Cancel

\* The status transition table.
AllowedTransitions ==
    {<<"open", "in_progress">>, <<"in_progress", "waiting_parts">>,
     <<"waiting_parts", "in_progress">>, <<"in_progress", "completed">>,
     <<"open", "cancelled">>, <<"in_progress", "cancelled">>,
     <<"waiting_parts", "cancelled">>}

\* C9: every status change that assign, startWork, waitingForParts, complete
\* or cancel makes to a ticket is a transition of the table; a completed or
\* cancelled ticket never changes status again.
C9_StatusFollowsTable ==
    [][\A p \in DOMAIN tickets :
          (p \in DOMAIN tickets' /\ tickets'[p].status # tickets[p].status)
             => <<tickets[p].status, tickets'[p].status>> \in AllowedTransitions
      ]_vars

\* C10: every ticket in_progress or completed has started_at set; a ticket
\* that enters in_progress gets started_at set, and one that has it keeps its
\* value; no ticket goes from open to completed without started_at.
C10_StartedAtOnFirstEntry ==
    /\ [](\A p \in DOMAIN tickets :
            tickets[p].status \in {"in_progress", "completed"}
               => tickets[p].started_at # NoTime)
    /\ [][\A p \in DOMAIN tickets :
            /\ (ticketLog'.op \in {"assign", "startWork"}
                /\ ticketLog'.ticketId = p[2]
                /\ tickets'[p].status = "in_progress")
                  => /\ tickets'[p].started_at # NoTime
                     /\ tickets[p].started_at # NoTime
                           => tickets'[p].started_at = tickets[p].started_at
            /\ (tickets[p].status = "open" /\ tickets'[p].status = "completed")
                  => tickets'[p].started_at # NoTime
         ]_vars

\* C11: every completed ticket has completed_at set and non-empty
\* resolution_notes; a complete call with empty resolution notes leaves the
\* ticket store unchanged.
C11_CompletionRequiresNotes ==
    \A p \in DOMAIN tickets :
        tickets[p].status = "completed"
           => /\ tickets[p].completed_at # NoTime
              /\ tickets[p].resolution_notes \notin {NULL, ""}

(***************************************************************************)
(* AUDIT LOG SERVICE  (src/src/services/audit.service.ts, AuditLogService) *)
(***************************************************************************)

AuditAction == {"create", "update", "delete", "assign", "transfer", "login",
                "logout", "export", "import"}

\* The tenants, modules, entity types, entity ids and users of the audit
\* log, and the number of entries after which no further entry is written.
AuditTenants == {"t1", "t2"}
AuditModules == {"assets"}
EntityTypes == {"asset"}
EntityIds == {"a1"}
AuditUsers == {"u1"}
MaxLogs == 2

ERR_AUDIT_TENANT == "Tenant ID must be set"

AuditResult(op, error, returned) ==
    [op |-> op, error |-> error, returned |-> returned]

AuditInit ==
    /\ auditTenantId = NULL
    /\ auditLogs = <<>>
    /\ auditCall = AuditResult("none", "none", {})

\* An audit call leaves the other components alone.
AuditFrame ==
    UNCHANGED <<permVars, repoVars, stockVars, assetVars, maintVars, storeVars,
                userVars, navVars, entVars,
                         matrixVars,
                         adminVars,
                         projVars,
                         loginVars>>

\* AuditLogService.setTenant
AuditSetTenant(t) ==
    /\ auditTenantId' = t
    /\ auditCall' = AuditResult("setTenant", "none", {})
    /\ UNCHANGED auditLogs

AuditBind == (\E t \in AuditTenants : AuditSetTenant(t)) /\ AuditFrame

\* logData of log(params): the fields the entry is written with.
LogData(action, module, entityType, entityId, userId) ==
    [tenant_id |-> auditTenantId, action |-> action, module |-> module,
     entity_type |-> entityType, entity_id |-> entityId, user_id |-> userId]

\* addDoc(collectionRef, logData): the entry becomes the newest document.
AppendLog_Overwrite(logs, entry) ==
    IF logs = <<>> THEN <<entry>> ELSE <<entry>> \o Tail(logs)
AppendLog(logs, entry) == Append(logs, entry)

\* The outcome of log(params): getCollectionRef throws without a tenant;
\* logData always holds undefined fields (changes, ip_address or user_agent),
\* which addDoc drops or rejects.
LogOutcome(undef) ==
    IF auditTenantId = NULL THEN ERR_AUDIT_TENANT
    ELSE IF undef = "rejected" THEN ERR_INVALID_DATA
    ELSE "none"

\* log(params)
AuditLogWrite(op, entry, undef) ==
    /\ Len(auditLogs) < MaxLogs
    /\ auditCall' = AuditResult(op, LogOutcome(undef), {})
    /\ auditLogs' = IF LogOutcome(undef) = "none"
                    THEN AppendLog(auditLogs, entry) ELSE auditLogs
    /\ UNCHANGED auditTenantId

Log ==
    \E action \in AuditAction, module \in AuditModules,
       entityType \in EntityTypes, entityId \in EntityIds,
       userId \in AuditUsers, undef \in UndefinedOutcomes :
        /\ AuditLogWrite("log",
               LogData(action, module, entityType, entityId, userId), undef)
        /\ AuditFrame

\* logCreate / logUpdate / logDelete(module, entityType, entityId, .., user, ..)
LogEntity(op, action) ==
    \E module \in AuditModules, entityType \in EntityTypes,
       entityId \in EntityIds, userId \in AuditUsers,
       undef \in UndefinedOutcomes :
        AuditLogWrite(op, LogData(action, module, entityType, entityId, userId),
                      undef)

LogCreate == LogEntity("logCreate", "create") /\ AuditFrame
LogUpdate == LogEntity("logUpdate", "update") /\ AuditFrame
LogDelete == LogEntity("logDelete", "delete") /\ AuditFrame

\* logAssign / logTransfer(entityType, entityId, .., user, ..): module 'assets'
LogAssetMove(op, action) ==
    \E entityType \in EntityTypes, entityId \in EntityIds,
       userId \in AuditUsers, undef \in UndefinedOutcomes :
        AuditLogWrite(op, LogData(action, "assets", entityType, entityId, userId),
                      undef)

LogAssign == LogAssetMove("logAssign", "assign") /\ AuditFrame
LogTransfer == LogAssetMove("logTransfer", "transfer") /\ AuditFrame

\* logLogin / logLogout(user, organizationId): module 'auth', the user as entity
LogSession(op, action) ==
    \E userId \in AuditUsers, undef \in UndefinedOutcomes :
        AuditLogWrite(op, LogData(action, "auth", "user", userId, userId), undef)

LogLogin == LogSession("logLogin", "login") /\ AuditFrame
LogLogout == LogSession("logLogout", "logout") /\ AuditFrame

\* logExport(module, exportType, recordCount, user, organizationId)
LogExport ==
    \E module \in AuditModules, exportType \in EntityTypes,
       userId \in AuditUsers, undef \in UndefinedOutcomes :
        /\ AuditLogWrite("logExport",
               LogData("export", module, exportType, "-", userId), undef)
        /\ AuditFrame

\* A query on the collection of the bound tenant: of the entries that match
\* its filters, those of the tenant.
AuditQuery(op, matching) ==
    /\ auditCall' =
         IF auditTenantId = NULL THEN AuditResult(op, ERR_AUDIT_TENANT, {})
         ELSE AuditResult(op, "none",
                 {i \in matching : auditLogs[i].tenant_id = auditTenantId})
    /\ UNCHANGED <<auditTenantId, auditLogs>>

\* getLogs(params): the filters that are given are applied.
GetLogs ==
    \E module \in AuditModules \cup {NULL}, action \in AuditAction \cup {NULL},
       userId \in AuditUsers \cup {NULL} :
        /\ AuditQuery("getLogs",
               {i \in DOMAIN auditLogs :
                   /\ module # NULL => auditLogs[i].module = module
                   /\ action # NULL => auditLogs[i].action = action
                   /\ userId # NULL => auditLogs[i].user_id = userId})
        /\ AuditFrame

\* getEntityLogs(entityType, entityId)
GetEntityLogs ==
    \E entityType \in EntityTypes, entityId \in EntityIds :
        /\ AuditQuery("getEntityLogs",
               {i \in DOMAIN auditLogs :
                   /\ auditLogs[i].entity_type = entityType
                   /\ auditLogs[i].entity_id = entityId})
        /\ AuditFrame

\* getUserActivity(userId, days)
GetUserActivity ==
    \E userId \in AuditUsers :
        /\ AuditQuery("getUserActivity",
               {i \in DOMAIN auditLogs : auditLogs[i].user_id = userId})
        /\ AuditFrame

AuditNext ==
    \/ AuditBind
    \/ Log
    \/ LogCreate
    \/ LogUpdate
    \/ LogDelete
    \/ LogAssign
    \/ LogTransfer
    \/ LogLogin
    \/ LogLogout
    \/ LogExport
    \/ GetLogs
    \/ GetEntityLogs
    \/ GetUserActivity

\* C14: audit log entries are append-only: every step keeps every entry
\* already written, with all of its fields, and at most adds entries.
C14_AuditAppendOnly ==
    [][/\ Len(auditLogs') >= Len(auditLogs)
       /\ \A i \in DOMAIN auditLogs : auditLogs'[i] = auditLogs[i]
      ]_vars

\* C14 witness: two entries written, and a query has returned them both.
C14_Witness ==
    /\ Len(auditLogs) = 2
    /\ auditLogs[1] # auditLogs[2]
    /\ auditCall.op = "getLogs"
    /\ Cardinality(auditCall.returned) = 2

(***************************************************************************)
(* ASSET STORE  (src/unnamed/part_009, useAssetStore)                      *)
(***************************************************************************)

\* The slots of in-flight store actions (a store action of slot c awaits the
\* AssetService call of slot c), and the data an updateAsset call passes.
StoreCallIds == {"k1"}
StoreTenants == {"t1"}
StoreAssetIds == {"a1"}
UpdateData ==
    {[office_id |-> "o2"], [status |-> "in_use", assigned_to |-> "u1"]}

\* A store action: pc says what it awaits ("idle": nothing, result says how
\* the last one ended; "service": the AssetService call; "audit": the audit
\* log write).
StoreIdle(result) ==
    [op |-> "none", pc |-> "idle", assetId |-> NULL, userId |-> NULL,
     data |-> <<>>, result |-> result]
StoreCall(op, assetId, userId, data) ==
    [op |-> op, pc |-> "service", assetId |-> assetId, userId |-> userId,
     data |-> data, result |-> "none"]

StoreInit ==
    /\ storeAssets = EmptyStore
    /\ currentAsset = <<>>
    /\ storeCalls = [c \in StoreCallIds |-> StoreIdle("none")]

\* A store action leaves the components it does not call alone.
StoreFrame ==
    UNCHANGED <<permVars, repoVars, stockVars, maintVars, userVars, navVars,
                entVars,
                         matrixVars,
                         adminVars,
                         projVars,
                         loginVars>>

\* The fields of an asset the local patches are about.
LocalCopy(id, doc) ==
    [id |-> id, office_id |-> doc.office_id, assigned_to |-> doc.assigned_to,
     status |-> doc.status]

\* initialize(tenantId)
StoreInitialize ==
    /\ \E t \in StoreTenants : assetTenantId' = t
    /\ UNCHANGED <<assets, assetEvents, assetCalls, auditVars, storeVars>>
    /\ StoreFrame

\* loadUserData of the auth store binds the audit log service to the tenant.
StoreAuditBind == (\E t \in StoreTenants : AuditSetTenant(t)) /\ AuditFrame

\* fetchAssets(params): the list becomes the assets of the bound tenant.
FetchAssets ==
    /\ assetTenantId # NULL
    /\ storeAssets' =
         [id \in {i \in StoreAssetIds : <<assetTenantId, i>> \in DOMAIN assets} |->
             LocalCopy(id, assets[<<assetTenantId, id>>])]
    /\ UNCHANGED <<assetVars, auditVars, currentAsset, storeCalls>>
    /\ StoreFrame

\* fetchAsset(assetId): currentAsset becomes what getById returns.
FetchAsset ==
    \E assetId \in StoreAssetIds :
        /\ assetTenantId # NULL
        /\ currentAsset' =
             IF AssetGetById(assetTenantId, assetId) = <<>> THEN <<>>
             ELSE <<LocalCopy(assetId, AssetGetById(assetTenantId, assetId)[1])>>
        /\ UNCHANGED <<assetVars, auditVars, storeAssets, storeCalls>>
        /\ StoreFrame

\* A store action starts: it reads authStore.userId and calls the service.
StoreStart(c, op, assetId, userId, data, started) ==
    /\ storeCalls[c].pc = "idle"
    /\ AssetInvoke(c, started)
    /\ storeCalls' = [storeCalls EXCEPT ![c] = StoreCall(op, assetId, userId, data)]
    /\ UNCHANGED <<auditVars, storeAssets, currentAsset>>
    /\ StoreFrame

\* createAsset(data): assetService.createWithEvent(data, userId)
CreateAsset ==
    \E c \in StoreCallIds, id \in FreeAssetIds \cap StoreAssetIds,
       officeId \in Offices, userId \in AssetActors :
        /\ StoreStart(c, "createAsset", id, userId, [office_id |-> officeId],
               AssetCall("createWithEvent", "commit", assetTenantId, id, userId,
                         NULL, officeId))

\* updateAsset(assetId, data): assetService.update(assetId, data, userId)
UpdateAsset ==
    \E c \in StoreCallIds, assetId \in StoreAssetIds, data \in UpdateData,
       userId \in AssetActors :
        /\ StoreStart(c, "updateAsset", assetId, userId, data,
               AssetCall("update", "write", assetTenantId, assetId, userId,
                         NULL, NULL))

\* assignAsset(assetId, userId): assetService.assignToUser(.., assignedBy)
AssignAsset ==
    \E c \in StoreCallIds, assetId \in StoreAssetIds, userId \in AssetUsers,
       assignedBy \in AssetActors :
        /\ StoreStart(c, "assignAsset", assetId, assignedBy,
               [assigned_to |-> userId, status |-> "in_use"],
               AssetCall("assignToUser", "read", assetTenantId, assetId,
                         assignedBy, userId, NULL))

\* unassignAsset(assetId): assetService.unassign(assetId, unassignedBy)
UnassignAsset ==
    \E c \in StoreCallIds, assetId \in StoreAssetIds, unassignedBy \in AssetActors :
        /\ StoreStart(c, "unassignAsset", assetId, unassignedBy,
               [assigned_to |-> NULL, status |-> "available"],
               AssetCall("unassign", "read", assetTenantId, assetId,
                         unassignedBy, NULL, NULL))

\* transferAsset(assetId, toOfficeId, notes): assetService.transferToOffice
TransferAsset ==
    \E c \in StoreCallIds, assetId \in StoreAssetIds, toOfficeId \in Offices,
       transferredBy \in AssetActors :
        /\ StoreStart(c, "transferAsset", assetId, transferredBy,
               [office_id |-> toOfficeId, assigned_to |-> NULL,
                status |-> "available"],
               AssetCall("transferToOffice", "read", assetTenantId, assetId,
                         transferredBy, NULL, toOfficeId))

\* disposeAsset(assetId, reason, disposalValue): assetService.dispose
DisposeAsset ==
    \E c \in StoreCallIds, assetId \in StoreAssetIds, disposedBy \in AssetActors,
       hasValue \in BOOLEAN, undef \in UndefinedOutcomes :
        /\ StoreStart(c, "disposeAsset", assetId, disposedBy,
               [status |-> "disposed"],
               IF ~hasValue /\ undef = "rejected" THEN AssetIdle(ERR_INVALID_DATA)
               ELSE AssetCall("dispose", "commit", assetTenantId, assetId,
                              disposedBy, NULL, NULL))

\* updateDoc of the inherited update answers an updateAsset: the fields are
\* merged into the asset, with updated_by; a missing asset fails the call.
StoreUpdateWrite ==
    \E c \in StoreCallIds :
        LET call == assetCalls[c]
            path == <<call.tenant, call.assetId>>
        IN  /\ call.pc = "write"
            /\ IF path \in DOMAIN assets
               THEN /\ assets' =
                         Put(assets, path,
                             Merge(Merge(assets[path], storeCalls[c].data),
                                   [updated_by |-> call.actor]))
                    /\ assetCalls' = [assetCalls EXCEPT ![c] = AssetIdle("none")]
               ELSE /\ assetCalls' =
                         [assetCalls EXCEPT ![c] = AssetIdle(ERR_NOT_FOUND)]
                    /\ UNCHANGED assets
            /\ UNCHANGED <<assetTenantId, assetEvents, auditVars, storeVars>>
            /\ StoreFrame

\* "Update local state": the entry of the list with the asset's id is patched.
PatchList_Stale(list, assetId, fields) == list
PatchList(list, assetId, fields) ==
    IF assetId \in DOMAIN list
    THEN [list EXCEPT ![assetId] = Merge(list[assetId], fields)]
    ELSE list

\* updateAsset also patches currentAsset when it holds the asset.
PatchCurrent(current, assetId, fields) ==
    IF current # <<>> /\ current[1].id = assetId
    THEN <<Merge(current[1], fields)>>
    ELSE current

\* The service call of a store action has returned or thrown. A failure ends
\* the action (false / null). After createWithEvent and update the action
\* goes on to the audit log; after the other calls it patches the list.
StoreResume ==
    \E c \in StoreCallIds :
        LET call == storeCalls[c]
        IN  /\ call.pc = "service"
            /\ assetCalls[c].pc = "done"
            /\ IF assetCalls[c].error # "none"
               THEN /\ storeCalls' = [storeCalls EXCEPT ![c] = StoreIdle("false")]
                    /\ UNCHANGED <<storeAssets, currentAsset>>
               ELSE IF call.op \in {"createAsset", "updateAsset"}
               THEN /\ storeCalls' = [storeCalls EXCEPT ![c].pc = "audit"]
                    /\ UNCHANGED <<storeAssets, currentAsset>>
               ELSE /\ storeAssets' = PatchList(storeAssets, call.assetId, call.data)
                    /\ storeCalls' = [storeCalls EXCEPT ![c] = StoreIdle("true")]
                    /\ UNCHANGED currentAsset
            /\ UNCHANGED <<assetVars, auditVars>>
            /\ StoreFrame

\* auditLogService.logCreate / logUpdate of createAsset and updateAsset, then
\* the local state is updated; a failed audit write ends the action in its
\* catch block (false / null) with the local state as it was.
StoreAudit ==
    \E c \in StoreCallIds, undef \in UndefinedOutcomes :
        LET call == storeCalls[c]
            created == call.op = "createAsset"
        IN  /\ call.pc = "audit"
            /\ AuditLogWrite(IF created THEN "logCreate" ELSE "logUpdate",
                   LogData(IF created THEN "create" ELSE "update", "assets",
                           "asset", call.assetId, call.userId), undef)
            /\ IF LogOutcome(undef) # "none"
               THEN /\ storeCalls' = [storeCalls EXCEPT ![c] = StoreIdle("false")]
                    /\ UNCHANGED <<storeAssets, currentAsset>>
               ELSE /\ storeCalls' = [storeCalls EXCEPT ![c] = StoreIdle("true")]
                    /\ IF created
                       THEN /\ storeAssets' =
                                 Put(storeAssets, call.assetId,
                                     [id |-> call.assetId,
                                      office_id |-> call.data.office_id,
                                      assigned_to |-> NULL,
                                      status |-> "available"])
                            /\ UNCHANGED currentAsset
                       ELSE /\ storeAssets' =
                                 PatchList(storeAssets, call.assetId, call.data)
                            /\ currentAsset' =
                                 PatchCurrent(currentAsset, call.assetId, call.data)
            /\ UNCHANGED assetVars
            /\ StoreFrame

StoreNext ==
    \/ StoreInitialize
    \/ StoreAuditBind
    \/ FetchAssets
    \/ FetchAsset
    \/ CreateAsset
    \/ UpdateAsset
    \/ AssignAsset
    \/ UnassignAsset
    \/ TransferAsset
    \/ DisposeAsset
    \/ AssetRead
    \/ AssetCommit
    \/ StoreUpdateWrite
    \/ StoreResume
    \/ StoreAudit

AuditActionOf == [createAsset   |-> "create",
                  updateAsset   |-> "update",
                  assignAsset   |-> "assign",
                  transferAsset |-> "transfer"]

\* C15: a create, update, assign or transfer through the asset store that
\* succeeds has written, by the time it returns, an audit entry that records
\* its action, the asset and the acting user.
C15_AuditNeverSkipped ==
    [][\A c \in StoreCallIds :
          (/\ storeCalls[c].op \in DOMAIN AuditActionOf
           /\ storeCalls'[c].result = "true")
             => \E i \in 1..Len(auditLogs') :
                   /\ auditLogs'[i].action = AuditActionOf[storeCalls[c].op]
                   /\ auditLogs'[i].entity_id = storeCalls[c].assetId
                   /\ auditLogs'[i].user_id = storeCalls[c].userId
      ]_vars

\* C24: when createAsset or updateAsset has committed its asset write and the
\* audit write that follows fails, the call still reports success and the
\* asset is in the store's local list (for an update: with the new fields).
C24_AuditFireAndForget ==
    [][\A c \in StoreCallIds :
          (/\ storeCalls[c].pc = "audit"
           /\ storeCalls'[c].pc = "idle"
           /\ auditCall'.error # "none")
             => /\ storeCalls'[c].result = "true"
                /\ storeCalls[c].op = "createAsset"
                      => storeCalls[c].assetId \in DOMAIN storeAssets'
                /\ storeCalls[c].op = "updateAsset"
                      => storeAssets' = PatchList(storeAssets, storeCalls[c].assetId,
                                                  storeCalls[c].data)
      ]_vars

(***************************************************************************)
(* USER SERVICE  (src/unnamed/part_008, UserService)                       *)
(***************************************************************************)

UserTenants == {"t1"}
UserIds == {"u1", "u2"}
UserStatus == {"active", "pending"}
ERR_USER_TENANT == "Tenant ID must be set"

\* additionalData of upsertFromAuth and data of update: the fields the caller
\* supplies (a role, a status, or neither).
UserData ==
    {<<>>} \cup {[role |-> r] : r \in UserRole}
           \cup {[status |-> st] : st \in UserStatus}

UserResult(op, actor, error) == [op |-> op, actor |-> actor, error |-> error]

UserInit ==
    /\ userTenantId = NULL
    /\ users = EmptyStore
    /\ userCall = UserResult("none", NULL, "none")

UserFrame == UNCHANGED <<permVars, repoVars, stockVars, assetVars, maintVars,
                         auditVars, storeVars, navVars, entVars,
                         matrixVars,
                         adminVars,
                         projVars,
                         loginVars>>

\* setTenant (inherited from BaseService)
UserBind ==
    /\ \E t \in UserTenants : userTenantId' = t
    /\ UNCHANGED <<users, userCall>>
    /\ UserFrame

\* { ...fields, ...additionalData }
Spread(fields, over) ==
    [f \in DOMAIN fields \cup DOMAIN over |->
        IF f \in DOMAIN over THEN over[f] ELSE fields[f]]

\* upsertFromAuth(uid, authData, additionalData): called for the account that
\* has just signed in. An existing user is updated with additionalData spread
\* last; a new one is set with role MANAGEMENT, status pending and
\* additionalData spread last.
UpsertFromAuth ==
    \E uid \in UserIds, additionalData \in UserData :
        /\ IF userTenantId = NULL
           THEN /\ userCall' = UserResult("upsertFromAuth", uid, ERR_USER_TENANT)
                /\ UNCHANGED users
           ELSE LET path == <<userTenantId, uid>>
                IN  /\ userCall' = UserResult("upsertFromAuth", uid, "none")
                    /\ users' =
                         IF path \in DOMAIN users
                         THEN Put(users, path, Merge(users[path], additionalData))
                         ELSE Put(users, path,
                                  Spread([role |-> "MANAGEMENT",
                                          status |-> "pending",
                                          updated_by |-> uid], additionalData))
        /\ UNCHANGED userTenantId
        /\ UserFrame

\* update(id, data, userId) (inherited from BaseService): updateDoc with the
\* data and updated_by; no document, no update.
UserUpdateDoc(op, userId, data, updatedBy) ==
    /\ IF userTenantId = NULL
       THEN /\ userCall' = UserResult(op, updatedBy, ERR_TENANT)
            /\ UNCHANGED users
       ELSE IF <<userTenantId, userId>> \notin DOMAIN users
       THEN /\ userCall' = UserResult(op, updatedBy, ERR_NOT_FOUND)
            /\ UNCHANGED users
       ELSE LET path == <<userTenantId, userId>>
            IN  /\ userCall' = UserResult(op, updatedBy, "none")
                /\ users' =
                     Put(users, path,
                         Merge(Merge(users[path], data), [updated_by |-> updatedBy]))
    /\ UNCHANGED userTenantId

UserUpdate ==
    \E userId \in UserIds, data \in UserData, updatedBy \in UserIds :
        /\ UserUpdateDoc("update", userId, data, updatedBy)
        /\ UserFrame

\* updateRole(userId, role, updatedBy)
UpdateRole ==
    \E userId \in UserIds, role \in UserRole, updatedBy \in UserIds :
        /\ UserUpdateDoc("updateRole", userId, [role |-> role], updatedBy)
        /\ UserFrame

\* updateStatus(userId, status, updatedBy)
UpdateStatus ==
    \E userId \in UserIds, status \in UserStatus, updatedBy \in UserIds :
        /\ UserUpdateDoc("updateStatus", userId, [status |-> status], updatedBy)
        /\ UserFrame

UserNext ==
    \/ UserBind
    \/ UpsertFromAuth
    \/ UserUpdate
    \/ UpdateRole
    \/ UpdateStatus

\* The role the acting user of a call holds when the call is made, or NULL.
ActorRole(actor) ==
    IF <<userTenantId, actor>> \in DOMAIN users
    THEN users[<<userTenantId, actor>>].role ELSE NULL

\* C16: the role of an existing user changes only in a call whose acting user
\* holds a role r with hasPermission(r, 'users', 'update').
C16_RoleChangeNeedsPermission ==
    [][\A p \in DOMAIN users :
          (p \in DOMAIN users' /\ users'[p].role # users[p].role)
             => hasPermission(ActorRole(userCall'.actor), "users", "update") = "true"
      ]_vars

\* C17: getAssignableRoles returns, for SUPER_ADMIN and TENANT_ADMIN, every
\* role but SUPER_ADMIN; for any other role of the hierarchy SUPER_ADMIN >
\* TENANT_ADMIN > ORG_ADMIN > IT_ADMIN > OFFICE_ADMIN > IT_TECHNICIAN > FINANCE
\* > MANAGEMENT exactly the roles strictly below it; for anything else the
\* empty list; and never SUPER_ADMIN.
C17_AssignableRolesBelow ==
    LET below == [ORG_ADMIN     |-> {"IT_ADMIN", "OFFICE_ADMIN", "IT_TECHNICIAN",
                                     "FINANCE", "MANAGEMENT"},
                  IT_ADMIN      |-> {"OFFICE_ADMIN", "IT_TECHNICIAN", "FINANCE",
                                     "MANAGEMENT"},
                  OFFICE_ADMIN  |-> {"IT_TECHNICIAN", "FINANCE", "MANAGEMENT"},
                  IT_TECHNICIAN |-> {"FINANCE", "MANAGEMENT"},
                  FINANCE       |-> {"MANAGEMENT"},
                  MANAGEMENT    |-> {}]
        returned == {permCall.roles[i] : i \in DOMAIN permCall.roles}
    IN  permCall.fn = "getAssignableRoles"
        => /\ Cardinality(returned) = Len(permCall.roles)
           /\ "SUPER_ADMIN" \notin returned
           /\ permCall.role \in {"SUPER_ADMIN", "TENANT_ADMIN"}
                 => returned = UserRole \ {"SUPER_ADMIN"}
           /\ permCall.role \in DOMAIN below => returned = below[permCall.role]
           /\ permCall.role \notin UserRole => permCall.roles = <<>>

\* An office administrator asked: the three roles below it came back.
C17_Witness ==
    /\ permCall.fn = "getAssignableRoles"
    /\ permCall.role = "OFFICE_ADMIN"
    /\ permCall.roles = <<"IT_TECHNICIAN", "FINANCE", "MANAGEMENT">>

(***************************************************************************)
(* ROUTER GUARD  (src/unnamed/part_006, src/src/stores/auth.store.ts)      *)
(***************************************************************************)

\* meta of a route: requiresAuth is that of the route or of a matched parent.
Route(requiresAuth, public, module, action) ==
    [requiresAuth |-> requiresAuth, public |-> public, module |-> module,
     action |-> action]
Public == Route(FALSE, TRUE, NULL, NULL)
Page(module) == Route(TRUE, FALSE, module, NULL)
Form(module, action) == Route(TRUE, FALSE, module, action)

\* routes, by name
routes ==
    [ login                |-> Public,
      forgot_password      |-> Public,
      dashboard            |-> Page("dashboard"),
      assets               |-> Page("assets"),
      asset_create         |-> Form("assets", "create"),
      asset_detail         |-> Page("assets"),
      asset_edit           |-> Form("assets", "update"),
      consumables          |-> Page("consumables"),
      consumable_create    |-> Form("consumables", "create"),
      consumable_detail    |-> Page("consumables"),
      stock                |-> Page("consumables"),
      maintenance          |-> Page("maintenance"),
      maintenance_create   |-> Form("maintenance", "create"),
      maintenance_detail   |-> Page("maintenance"),
      projects             |-> Page("projects"),
      project_create       |-> Form("projects", "create"),
      project_detail       |-> Page("projects"),
      offices              |-> Page("offices"),
      office_create        |-> Form("offices", "create"),
      office_detail        |-> Page("offices"),
      users                |-> Page("users"),
      user_create          |-> Form("users", "create"),
      user_detail          |-> Page("users"),
      reports              |-> Page("reports"),
      audit_logs           |-> Page("audit_logs"),
      settings             |-> Page("settings"),
      profile              |-> Page(NULL),
      not_found            |-> Route(FALSE, FALSE, NULL, NULL) ]

RouteNames == DOMAIN routes

\* Redirections vue-router follows in one navigation before it gives up.
MaxRedirects == 2

\* useAuthStore.can / canAccess: no loaded role, no permission.
can(role, module, action) ==
    IF role = NULL THEN "false" ELSE hasPermission(role, module, action)
canAccess(role, module) ==
    IF role = NULL THEN "false" ELSE canAccessModule(role, module)

\* router.beforeEach without the action check.
beforeEach_NoAction(to, authed, role) ==
    LET meta == routes[to] IN
    IF meta.requiresAuth /\ ~authed THEN "login"
    ELSE IF meta.requiresAuth /\ meta.module # NULL
            /\ canAccess(role, meta.module) # "true"
    THEN IF canAccess(role, meta.module) = "false" THEN "dashboard" ELSE "error"
    ELSE IF meta.public /\ authed THEN "dashboard"
    ELSE "next"

\* router.beforeEach(to): "next" lets the navigation through, "login" and
\* "dashboard" redirect it, "error" is a guard that threw.
beforeEach(to, authed, role) ==
    LET meta == routes[to] IN
    IF meta.requiresAuth /\ ~authed THEN "login"
    ELSE IF meta.requiresAuth /\ meta.module # NULL
            /\ canAccess(role, meta.module) # "true"
    THEN IF canAccess(role, meta.module) = "false" THEN "dashboard" ELSE "error"
    ELSE IF meta.requiresAuth /\ meta.module # NULL /\ meta.action # NULL
            /\ can(role, meta.module, meta.action) # "true"
    THEN IF can(role, meta.module, meta.action) = "false" THEN "dashboard"
         ELSE "error"
    ELSE IF meta.public /\ authed THEN "dashboard"
    ELSE "next"

\* The route a navigation ends on: a redirect starts a navigation to its
\* target, which the guard sees again; "none" when the navigation fails or
\* the redirections do not end.
RECURSIVE Resolve(_, _, _, _)
Resolve(to, authed, role, redirects) ==
    LET decision == beforeEach(to, authed, role) IN
    IF decision = "next" THEN to
    ELSE IF decision = "error" \/ redirects = 0 THEN "none"
    ELSE Resolve(decision, authed, role, redirects - 1)

\* A navigation: the target, the auth state the guard saw, its answer for the
\* target and the route the navigation ended on.
NavResult(to, authed, role, decision, final) ==
    [to |-> to, authed |-> authed, role |-> role, decision |-> decision,
     final |-> final]

NavInit ==
    /\ isAuthenticated = FALSE
    /\ currentRole = NULL
    /\ authLoading = FALSE
    /\ navCall = NavResult("none", FALSE, NULL, "none", "none")

NavFrame == UNCHANGED <<permVars, repoVars, stockVars, assetVars, maintVars,
                        auditVars, storeVars, userVars, entVars,
                         matrixVars,
                         adminVars,
                         projVars,
                         loginVars>>

\* onAuthStateChanged(user): loadUserData sets currentUser from the user's
\* document, and awaits the organization.
LoadUserData ==
    /\ ~authLoading
    /\ \E role \in RoleInputs : currentRole' = role
    /\ authLoading' = TRUE
    /\ UNCHANGED <<isAuthenticated, navCall>>
    /\ NavFrame

\* loadUserData has returned: isAuthenticated = true.
AuthLoaded ==
    /\ authLoading
    /\ isAuthenticated' = TRUE
    /\ authLoading' = FALSE
    /\ UNCHANGED <<currentRole, navCall>>
    /\ NavFrame

\* loadUserData has thrown: isAuthenticated = false, currentUser = null.
AuthLoadFailed ==
    /\ authLoading
    /\ isAuthenticated' = FALSE
    /\ currentRole' = NULL
    /\ authLoading' = FALSE
    /\ UNCHANGED navCall
    /\ NavFrame

\* logout(), or onAuthStateChanged(null): the state is cleared.
Logout ==
    /\ ~authLoading
    /\ isAuthenticated' = FALSE
    /\ currentRole' = NULL
    /\ UNCHANGED <<authLoading, navCall>>
    /\ NavFrame

\* router.push(to): the guard decides, redirections are followed.
Navigate ==
    \E to \in RouteNames :
        LET final == Resolve(to, isAuthenticated, currentRole, MaxRedirects)
        IN  /\ navCall' = NavResult(to, isAuthenticated, currentRole,
                                    beforeEach(to, isAuthenticated, currentRole),
                                    final)
            /\ UNCHANGED <<isAuthenticated, currentRole, authLoading>>
            /\ NavFrame

NavNext ==
    \/ LoadUserData
    \/ AuthLoaded
    \/ AuthLoadFailed
    \/ Logout
    \/ Navigate

\* C18: a navigation ends on a route under the authenticated layout only if
\* the user is authenticated, the route's module (if any) passes
\* canAccessModule for the current role and its action (if any) passes
\* hasPermission; an unauthenticated user bound for such a route is sent to
\* login, an authenticated one lacking the permission is sent to the
\* dashboard, and without a loaded role no route with a module is reached.
C18_GuardedNavigation ==
    /\ (navCall.final # "none" /\ routes[navCall.final].requiresAuth)
          => LET meta == routes[navCall.final]
             IN  /\ navCall.authed
                 /\ meta.module # NULL
                       => /\ navCall.role # NULL
                          /\ canAccessModule(navCall.role, meta.module) = "true"
                 /\ meta.action # NULL
                       => hasPermission(navCall.role, meta.module, meta.action)
                             = "true"
    /\ (navCall.to # "none" /\ routes[navCall.to].requiresAuth)
          => LET meta == routes[navCall.to]
                 denied ==
                     \/ (meta.module # NULL
                           /\ (navCall.role = NULL
                                \/ canAccessModule(navCall.role, meta.module)
                                      = "false"))
                     \/ (meta.action # NULL
                           /\ (navCall.role = NULL
                                \/ hasPermission(navCall.role, meta.module,
                                                 meta.action) = "false"))
             IN  /\ ~navCall.authed
                       => navCall.decision = "login" /\ navCall.final = "login"
                 /\ (navCall.authed /\ denied)
                       => /\ navCall.decision = "dashboard"
                          /\ navCall.final \in {"dashboard", "none"}

\* A MANAGEMENT user asked for the new-asset form and landed on the dashboard.
C18_Witness ==
    /\ navCall = NavResult("asset_create", TRUE, "MANAGEMENT", "dashboard",
                           "dashboard")

\* C30: a navigation of an authenticated session, whatever the user's role,
\* ends on a route: the redirections of the guard come to an end.
C30_GuardSettles ==
    (navCall.to # "none" /\ navCall.authed) => navCall.final # "none"

(***************************************************************************)
(* BASE SERVICE: AUDIT FIELDS AND QUERY ORDER                              *)
(* (src/src/services/audit.service.ts, BaseService)                        *)
(***************************************************************************)

EntTenants == {"t1"}
EntActors == {"u1", "u2"}

\* The document ids of the collection, in the order Firestore sorts ids. An
\* auto-id is random: any id not in use.
EntIdOrder == <<"d1", "d2">>
EntIds == {EntIdOrder[i] : i \in DOMAIN EntIdOrder}

\* Timestamp.now() runs from 1 to MaxClock; 0 is a time no clock shows.
MaxClock == 2

\* data of create: the entity's own field, alone or with values of its own
\* for the audit fields.
CreateData ==
    {[name |-> "a"],
     [name |-> "a", tenant_id |-> "t9", created_at |-> 0, created_by |-> "u9",
      updated_at |-> 0, updated_by |-> "u9"]}

\* data of update: a stored field changed, or a field added.
UpdateFields == {[name |-> "b"], [note |-> "n"]}

EntResult(op, id, data, userId, error, returned) ==
    [op |-> op, id |-> id, data |-> data, userId |-> userId, error |-> error,
     returned |-> returned]

EntInit ==
    /\ entTenantId = NULL
    /\ entities = EmptyStore
    /\ clock = 1
    /\ entCall = EntResult("none", NULL, <<>>, NULL, "none", <<>>)

EntFrame == UNCHANGED <<permVars, repoVars, stockVars, assetVars, maintVars,
                        auditVars, storeVars, userVars, navVars,
                         matrixVars,
                         adminVars,
                         projVars,
                         loginVars>>

\* setTenant(tenantId)
EntSetTenant ==
    /\ \E t \in EntTenants : entTenantId' = t
    /\ UNCHANGED <<entities, clock, entCall>>
    /\ EntFrame

\* Time passes between two calls.
EntTick ==
    /\ clock < MaxClock
    /\ clock' = clock + 1
    /\ UNCHANGED <<entTenantId, entities, entCall>>
    /\ EntFrame

\* addAuditFields with the caller's data spread last.
addAuditFieldsAt_DataLast(data, tid, userId, time, isNew) ==
    IF isNew
    THEN Spread([tenant_id |-> tid, created_at |-> time, created_by |-> userId,
                 updated_at |-> time, updated_by |-> userId], data)
    ELSE Spread([updated_at |-> time, updated_by |-> userId], data)

\* addAuditFields(data, userId, isNew) at Timestamp.now() = time, for the
\* service bound to tid: the audit fields are spread over the data.
addAuditFieldsAt(data, tid, userId, time, isNew) ==
    IF isNew
    THEN Spread(data, [tenant_id |-> tid, created_at |-> time,
                       created_by |-> userId, updated_at |-> time,
                       updated_by |-> userId])
    ELSE Spread(data, [updated_at |-> time, updated_by |-> userId])

\* create(data, userId): addDoc under an auto-id.
EntCreate ==
    \E data \in CreateData, userId \in EntActors :
        /\ IF entTenantId = NULL
           THEN /\ entCall' = EntResult("create", NULL, data, userId, ERR_TENANT, <<>>)
                /\ UNCHANGED entities
           ELSE \E id \in EntIds :
                   /\ <<entTenantId, id>> \notin DOMAIN entities
                   /\ entities' =
                        Put(entities, <<entTenantId, id>>,
                            addAuditFieldsAt(data, entTenantId, userId, clock, TRUE))
                   /\ entCall' = EntResult("create", id, data, userId, "none", <<id>>)
        /\ UNCHANGED <<entTenantId, clock>>
        /\ EntFrame

\* update(id, data, userId): updateDoc sets the given fields on the document
\* and keeps its others; there must be a document.
EntUpdate ==
    \E id \in EntIds, data \in UpdateFields, userId \in EntActors :
        /\ IF entTenantId = NULL
           THEN /\ entCall' = EntResult("update", id, data, userId, ERR_TENANT, <<>>)
                /\ UNCHANGED entities
           ELSE IF <<entTenantId, id>> \notin DOMAIN entities
           THEN /\ entCall' = EntResult("update", id, data, userId, ERR_NOT_FOUND, <<>>)
                /\ UNCHANGED entities
           ELSE /\ entities' =
                     Put(entities, <<entTenantId, id>>,
                         Spread(entities[<<entTenantId, id>>],
                                addAuditFieldsAt(data, entTenantId, userId, clock,
                                                 FALSE)))
                /\ entCall' = EntResult("update", id, data, userId, "none", <<>>)
        /\ UNCHANGED <<entTenantId, clock>>
        /\ EntFrame

\* The position of an id in Firestore's order of document ids.
IdRank(id) == IndexOf(EntIdOrder, id)

\* A query with no orderBy: the documents by ascending document id.
RECURSIVE ByDocumentId(_)
ByDocumentId(ids) ==
    IF ids = {} THEN <<>>
    ELSE LET first == CHOOSE i \in ids : \A j \in ids : IdRank(i) <= IdRank(j)
         IN  <<first>> \o ByDocumentId(ids \ {first})

\* orderBy('created_at', 'desc'): latest created_at first, equal times by
\* descending document id.
RECURSIVE ByCreatedAtDesc(_, _)
ByCreatedAtDesc(tenant, ids) ==
    IF ids = {} THEN <<>>
    ELSE LET at(i) == entities[<<tenant, i>>].created_at
             first == CHOOSE i \in ids :
                         \A j \in ids :
                            \/ at(i) > at(j)
                            \/ (at(i) = at(j) /\ IdRank(i) >= IdRank(j))
         IN  <<first>> \o ByCreatedAtDesc(tenant, ids \ {first})

\* The ids of the documents of a tenant's collection.
IdsOf(tenant) == {id \in EntIds : <<tenant, id>> \in DOMAIN entities}

\* getAll(): query(collectionRef) with no constraint.
EntGetAll ==
    /\ entCall' =
         IF entTenantId = NULL
         THEN EntResult("getAll", NULL, <<>>, NULL, ERR_TENANT, <<>>)
         ELSE EntResult("getAll", NULL, <<>>, NULL, "none",
                        ByDocumentId(IdsOf(entTenantId)))
    /\ UNCHANGED <<entTenantId, entities, clock>>
    /\ EntFrame

\* page_size of getPaginated
PageSizes == {1, 25}

\* Array.prototype.slice(0, n) keeps at most n elements.
Min(a, b) == IF a <= b THEN a ELSE b

\* getPaginated(params) without params.sort: orderBy('created_at', 'desc'),
\* limit(page_size + 1), and the first page_size documents of the answer.
EntGetPaginated ==
    \E page_size \in PageSizes :
        /\ entCall' =
             IF entTenantId = NULL
             THEN EntResult("getPaginated", NULL, <<>>, NULL, ERR_TENANT, <<>>)
             ELSE LET found == ByCreatedAtDesc(entTenantId, IdsOf(entTenantId))
                      limited == SubSeq(found, 1, Min(page_size + 1, Len(found)))
                  IN  EntResult("getPaginated", NULL, <<>>, NULL, "none",
                                SubSeq(limited, 1, Min(page_size, Len(limited))))
        /\ UNCHANGED <<entTenantId, entities, clock>>
        /\ EntFrame

EntNext ==
    \/ EntSetTenant
    \/ EntTick
    \/ EntCreate
    \/ EntUpdate
    \/ EntGetAll
    \/ EntGetPaginated

\* C19: a create that succeeds adds one document under an id none had, with
\* created_by = updated_by = the actor, created_at = updated_at = the time of
\* the call and tenant_id = the bound tenant, whatever the caller's data says
\* of these fields, and touches no other document; an update that succeeds
\* sets the supplied fields, updated_at and updated_by on its document and
\* leaves the document's other fields, created_at and created_by among them,
\* and every other document as they were.
C19_MetadataStamping ==
    [][/\ (entCall'.op = "create" /\ entCall'.error = "none"
              /\ entities' # entities)
          => LET path == <<entTenantId, entCall'.id>>
                 doc == entities'[path]
             IN  /\ path \notin DOMAIN entities
                 /\ DOMAIN entities' = DOMAIN entities \cup {path}
                 /\ \A p \in DOMAIN entities : entities'[p] = entities[p]
                 /\ doc.created_by = entCall'.userId
                 /\ doc.updated_by = entCall'.userId
                 /\ doc.created_at = clock
                 /\ doc.updated_at = clock
                 /\ doc.tenant_id = entTenantId
                 /\ doc.name = entCall'.data.name
       /\ (entCall'.op = "update" /\ entCall'.error = "none"
              /\ entities' # entities)
          => LET path == <<entTenantId, entCall'.id>>
                 before == entities[path]
                 after == entities'[path]
                 supplied == DOMAIN entCall'.data
             IN  /\ DOMAIN entities' = DOMAIN entities
                 /\ \A p \in DOMAIN entities \ {path} : entities'[p] = entities[p]
                 /\ DOMAIN after = DOMAIN before \cup supplied
                 /\ \A f \in supplied : after[f] = entCall'.data[f]
                 /\ after.updated_at = clock
                 /\ after.updated_by = entCall'.userId
                 /\ \A f \in DOMAIN before \ (supplied \cup {"updated_at", "updated_by"}) :
                       after[f] = before[f]
                 /\ after.created_at = before.created_at
                 /\ after.created_by = before.created_by
      ]_vars

\* A document created by u1 at time 1 was given a new field by u2 at time 2.
C19_Witness ==
    \E id \in EntIds :
        /\ <<"t1", id>> \in DOMAIN entities
        /\ entCall.op = "update" /\ entCall.error = "none" /\ entCall.id = id
        /\ entCall.data = [note |-> "n"]
        /\ entities[<<"t1", id>>] =
             [name |-> "a", note |-> "n", tenant_id |-> "t1", created_at |-> 1,
              created_by |-> "u1", updated_at |-> 2, updated_by |-> "u2"]

\* C20: what getAll with no constraint, and getPaginated with no sort, return
\* is ordered most recently created first: created_at never increases along
\* the list.
C20_NewestFirstByDefault ==
    (entCall.op \in {"getAll", "getPaginated"} /\ entCall.error = "none")
       => \A i, j \in DOMAIN entCall.returned :
             i < j => entities[<<entTenantId, entCall.returned[i]>>].created_at
                        >= entities[<<entTenantId, entCall.returned[j]>>].created_at

(***************************************************************************)
(* THE MATRIX AT RUNTIME  (src/src/lib/permissions.ts)                     *)
(* ROLE_PERMISSIONS holds references to arrays; this component keeps the  *)
(* arrays as objects that whoever holds a reference can change. Of the    *)
(* arrays the state records those that were changed; the others hold what *)
(* the module loaded them with.                                            *)
(***************************************************************************)

\* The array a cell of ROLE_PERMISSIONS refers to: one of the three constants
\* (shared by every cell written with its name) or the cell's own literal.
ArrayRef(role, module) ==
    IF ROLE_PERMISSIONS[role][module] = ALL_ACTIONS
    THEN <<"const", "ALL_ACTIONS">>
    ELSE IF ROLE_PERMISSIONS[role][module] = READ_CREATE_UPDATE
    THEN <<"const", "READ_CREATE_UPDATE">>
    ELSE IF role = "MANAGEMENT"
            /\ module \in {"assets", "consumables", "maintenance", "projects"}
    THEN <<"const", "READ_ONLY">>
    ELSE <<role, module>>

ArrayRefs == {ArrayRef(role, module) : role \in UserRole, module \in MODULES}

\* The arrays as the module creates them when it is loaded.
LoadedLists ==
    [ref \in ArrayRefs |->
        CASE ref = <<"const", "ALL_ACTIONS">> -> ALL_ACTIONS
          [] ref = <<"const", "READ_CREATE_UPDATE">> -> READ_CREATE_UPDATE
          [] ref = <<"const", "READ_ONLY">> -> READ_ONLY
          [] OTHER -> ROLE_PERMISSIONS[ref[1]][ref[2]]]

\* The roles, modules and actions callers ask about, and the actions a
\* caller appends to a list it was handed.
MatrixRoles == {"SUPER_ADMIN", "IT_TECHNICIAN", "MANAGEMENT"}
MatrixModules == {"assets", "audit_logs"}
MatrixActions == {"read", "delete"}

\* Arrays a caller may have changed.
MaxPushes == 1

\* No array was changed.
AsLoaded == [ref \in {} |-> <<>>]

\* What the array of a reference holds, given the changed arrays.
ListAt(lists, ref) == IF ref \in DOMAIN lists THEN lists[ref] ELSE LoadedLists[ref]

\* hasPermission(role, module, action) with ROLE_PERMISSIONS as it is now.
hasPermissionIn(lists, role, module, action) ==
    IF Includes(ListAt(lists, ArrayRef(role, module)), action)
    THEN "true" ELSE "false"

\* getAccessibleModules: the entries whose actions include 'read'
getAccessibleModulesIn(lists, role) ==
    {module \in MODULES : Includes(ListAt(lists, ArrayRef(role, module)), "read")}

MatrixResult(fn, role, module, action, result, returned) ==
    [fn |-> fn, role |-> role, module |-> module, action |-> action,
     result |-> result, returned |-> returned]

MatrixInit ==
    /\ actionLists = AsLoaded
    /\ matrixCall = MatrixResult("none", NULL, NULL, NULL, "none", {})

MatrixFrame == UNCHANGED <<permVars, repoVars, stockVars, assetVars, maintVars,
                           auditVars, storeVars, userVars, navVars, entVars,
                         adminVars,
                         projVars,
                         loginVars>>

\* A call that reads the matrix and hands back nothing of it.
MatrixQuery(result) ==
    /\ matrixCall' = result
    /\ UNCHANGED actionLists

LiveHasPermission ==
    \E role \in MatrixRoles, module \in MatrixModules, action \in MatrixActions :
        /\ MatrixQuery(MatrixResult("hasPermission", role, module, action,
               hasPermissionIn(actionLists, role, module, action), {}))
        /\ MatrixFrame

LiveCanAccessModule ==
    \E role \in MatrixRoles, module \in MatrixModules :
        /\ MatrixQuery(MatrixResult("canAccessModule", role, module, NULL,
               hasPermissionIn(actionLists, role, module, "read"), {}))
        /\ MatrixFrame

\* getRolePermissions(role): each entry's actions is the very array of the
\* matrix, not a copy; the caller now holds the role's arrays.
LiveGetRolePermissions ==
    \E role \in MatrixRoles :
        /\ MatrixQuery(MatrixResult("getRolePermissions", role, NULL, NULL,
               "list", {ArrayRef(role, module) : module \in MODULES}))
        /\ MatrixFrame

\* getAccessibleModules(role): a new array (filter, map).
LiveGetAccessibleModules ==
    \E role \in MatrixRoles :
        /\ MatrixQuery(MatrixResult("getAccessibleModules", role, NULL, NULL,
               "list", getAccessibleModulesIn(actionLists, role)))
        /\ MatrixFrame

\* isAdminRole(role): a literal list, no use of the matrix.
LiveIsAdminRole ==
    \E role \in MatrixRoles :
        /\ MatrixQuery(MatrixResult("isAdminRole", role, NULL, NULL,
               IF role \in {"SUPER_ADMIN", "TENANT_ADMIN", "ORG_ADMIN"}
               THEN "true" ELSE "false", {}))
        /\ MatrixFrame

\* canManageUsers(role): users:create || users:update
LiveCanManageUsers ==
    \E role \in MatrixRoles :
        /\ MatrixQuery(MatrixResult("canManageUsers", role, NULL, NULL,
               IF \/ hasPermissionIn(actionLists, role, "users", "create") = "true"
                  \/ hasPermissionIn(actionLists, role, "users", "update") = "true"
               THEN "true" ELSE "false", {}))
        /\ MatrixFrame

\* canManageOrganization(role): organizations:update && offices:create
LiveCanManageOrganization ==
    \E role \in MatrixRoles :
        /\ MatrixQuery(MatrixResult("canManageOrganization", role, NULL, NULL,
               IF /\ hasPermissionIn(actionLists, role, "organizations", "update")
                       = "true"
                  /\ hasPermissionIn(actionLists, role, "offices", "create") = "true"
               THEN "true" ELSE "false", {}))
        /\ MatrixFrame

\* getAssignableRoles(role): slices of a list local to the call.
LiveGetAssignableRoles ==
    \E role \in MatrixRoles :
        /\ MatrixQuery(MatrixResult("getAssignableRoles", role, NULL, NULL, "list",
               {getAssignableRoles(role)[i] :
                   i \in DOMAIN getAssignableRoles(role)}))
        /\ MatrixFrame

\* A caller of getRolePermissions appends an action to the actions of one of
\* the entries it was handed (entry.actions.push(action)).
CallerPush ==
    \E ref \in matrixCall.returned, action \in MatrixActions :
        /\ matrixCall.fn = "getRolePermissions"
        /\ ref \notin DOMAIN actionLists
        /\ Cardinality(DOMAIN actionLists) < MaxPushes
        /\ actionLists' = Put(actionLists, ref, Append(LoadedLists[ref], action))
        /\ UNCHANGED matrixCall
        /\ MatrixFrame

MatrixNext ==
    \/ LiveHasPermission
    \/ LiveCanAccessModule
    \/ LiveGetRolePermissions
    \/ LiveGetAccessibleModules
    \/ LiveIsAdminRole
    \/ LiveCanManageUsers
    \/ LiveCanManageOrganization
    \/ LiveGetAssignableRoles
    \/ CallerPush

\* C21: whatever the callers of the permission functions have done with what
\* they were handed, hasPermission answers for every role, module and action
\* as it did when the process started.
C21_MatrixImmutable ==
    \A role \in UserRole, module \in MODULES, action \in ActionValue :
        hasPermissionIn(actionLists, role, module, action)
           = hasPermissionIn(AsLoaded, role, module, action)

\* C22: canAccessModule(role, module) is hasPermission(role, module, 'read'),
\* and getAccessibleModules(role) lists, once each, exactly the modules for
\* which canAccessModule(role, module) is true: none for what is no role.
C22_VisibilityIsReadAccess ==
    /\ permCall.fn = "canAccessModule"
          => permCall.result = hasPermission(permCall.role, permCall.module, "read")
    /\ permCall.fn = "getAccessibleModules"
          => LET returned == {permCall.roles[i] : i \in DOMAIN permCall.roles}
             IN  /\ Cardinality(returned) = Len(permCall.roles)
                 /\ returned = {module \in ModuleInputs :
                                   canAccessModule(permCall.role, module) = "true"}
                 /\ permCall.role \notin UserRole => permCall.roles = <<>>

\* An IT technician's modules: all but the audit logs and the settings.
C22_Witness ==
    /\ permCall.fn = "getAccessibleModules"
    /\ permCall.role = "IT_TECHNICIAN"
    /\ {permCall.roles[i] : i \in DOMAIN permCall.roles}
          = MODULES \ {"audit_logs", "settings"}

(***************************************************************************)
(* ADMIN ROLES  (src/src/lib/permissions.ts, src/src/stores/auth.store.ts, *)
(* src/unnamed/part_008 UserService)                                       *)
(***************************************************************************)

\* The office or company asked about, and the lists a user may hold.
PlaceId == "o1"
AccessLists == {<<>>, <<"o1">>, <<"o2">>}

\* A user as the checks see it: <<>> for none (currentUser.value is null), or
\* <<the user's role and access list>>.
NoUser == <<>>
UserWith(role, accessible) == <<[role |-> role, accessible |-> accessible]>>
AdminUsers ==
    {NoUser} \cup {UserWith(role, list) : role \in RoleInputs, list \in AccessLists}

\* isAdminRole(role) of permissions.ts
isAdminRole(role) == Includes(<<"SUPER_ADMIN", "TENANT_ADMIN", "ORG_ADMIN">>, role)

\* The auth store's isAdmin getter without ORG_ADMIN.
isAdmin_NoOrgAdmin(user) ==
    /\ user # NoUser
    /\ (user[1].role = "SUPER_ADMIN" \/ user[1].role = "TENANT_ADMIN")

\* The auth store's isAdmin getter over currentUser.value?.role
isAdmin(user) ==
    /\ user # NoUser
    /\ (user[1].role = "SUPER_ADMIN" \/ user[1].role = "TENANT_ADMIN"
          \/ user[1].role = "ORG_ADMIN")

\* hasOfficeAccess / hasCompanyAccess of the auth store
StoreHasAccess(user, placeId) ==
    IF user = NoUser THEN FALSE
    ELSE IF isAdmin(user) THEN TRUE
    ELSE Includes(user[1].accessible, placeId)

\* UserService.hasOfficeAccess / hasCompanyAccess (user, id)
ServiceHasAccess(user, placeId) ==
    IF Includes(<<"SUPER_ADMIN", "TENANT_ADMIN", "ORG_ADMIN">>, user.role) THEN TRUE
    ELSE Includes(user.accessible, placeId)

AdminResult(fn, user, result) == [fn |-> fn, user |-> user, result |-> result]

AdminInit == adminCall = AdminResult("none", NoUser, FALSE)

AdminFrame == UNCHANGED <<permVars, repoVars, stockVars, assetVars, maintVars,
                          auditVars, storeVars, userVars, navVars, entVars,
                          matrixVars,
                         projVars,
                         loginVars>>

CallIsAdminRole ==
    /\ \E role \in RoleInputs :
          adminCall' = AdminResult("isAdminRole", UserWith(role, <<>>),
                                   isAdminRole(role))
    /\ AdminFrame

CallIsAdmin ==
    /\ \E user \in AdminUsers :
          adminCall' = AdminResult("isAdmin", user, isAdmin(user))
    /\ AdminFrame

CallStoreHasOfficeAccess ==
    /\ \E user \in AdminUsers :
          adminCall' = AdminResult("store.hasOfficeAccess", user,
                                   StoreHasAccess(user, PlaceId))
    /\ AdminFrame

CallStoreHasCompanyAccess ==
    /\ \E user \in AdminUsers :
          adminCall' = AdminResult("store.hasCompanyAccess", user,
                                   StoreHasAccess(user, PlaceId))
    /\ AdminFrame

CallServiceHasOfficeAccess ==
    /\ \E user \in AdminUsers \ {NoUser} :
          adminCall' = AdminResult("service.hasOfficeAccess", user,
                                   ServiceHasAccess(user[1], PlaceId))
    /\ AdminFrame

CallServiceHasCompanyAccess ==
    /\ \E user \in AdminUsers \ {NoUser} :
          adminCall' = AdminResult("service.hasCompanyAccess", user,
                                   ServiceHasAccess(user[1], PlaceId))
    /\ AdminFrame

AdminNext ==
    \/ CallIsAdminRole
    \/ CallIsAdmin
    \/ CallStoreHasOfficeAccess
    \/ CallStoreHasCompanyAccess
    \/ CallServiceHasOfficeAccess
    \/ CallServiceHasCompanyAccess

\* C23: isAdminRole and the auth store's isAdmin are true exactly for
\* SUPER_ADMIN, TENANT_ADMIN and ORG_ADMIN, and the office and company checks
\* of the auth store and of the user service let a user through whose list
\* lacks the place exactly when the user has one of these three roles.
C23_AdminRolesAgree ==
    LET admins == {"SUPER_ADMIN", "TENANT_ADMIN", "ORG_ADMIN"}
        user == adminCall.user
    IN  /\ adminCall.fn \in {"isAdminRole", "isAdmin"}
              => (adminCall.result <=> (user # NoUser /\ user[1].role \in admins))
        /\ adminCall.fn \in {"store.hasOfficeAccess", "store.hasCompanyAccess",
                             "service.hasOfficeAccess", "service.hasCompanyAccess"}
              => /\ user = NoUser => ~adminCall.result
                 /\ user # NoUser
                       => (adminCall.result
                              <=> (user[1].role \in admins
                                     \/ Includes(user[1].accessible, PlaceId)))

\* An organization administrator with no office listed was let into the
\* office by the auth store's check.
C23_Witness ==
    adminCall = AdminResult("store.hasOfficeAccess", UserWith("ORG_ADMIN", <<>>), TRUE)

\* C27: every role that getAssignableRoles(r) returns is granted, by the
\* permission matrix, only (module, action) pairs that r itself is granted.
C27_NoEscalationByAssignment ==
    permCall.fn = "getAssignableRoles"
    => \A i \in DOMAIN permCall.roles, module \in MODULES, action \in ActionValue :
           hasPermission(permCall.roles[i], module, action) = "true"
           => hasPermission(permCall.role, module, action) = "true"

(***************************************************************************)
(* PROJECT EXPENSES  (src/unnamed/part_008, ProjectService)                *)
(***************************************************************************)

\* One project, whose document exists with actual_cost 0 and no expenses.
\* The amounts of an expense, the slots of the addExpense calls in flight, and
\* the number of expenses after which no further call starts.
ProjTenants == {"t1"}
ProjCallIds == {"p1", "p2"}
Amounts == {1, 2}
MaxExpenses == 3

\* A call slot: "done" (returned or threw), "add" (awaiting addDoc), "read"
\* (awaiting getExpenses), "write" (awaiting update); actualCost is the sum
\* the call computed from what it read.
ProjIdle(error) == [pc |-> "done", amount |-> 0, actualCost |-> 0, error |-> error]

ProjInit ==
    /\ projTenantId = NULL
    /\ expenses = <<>>
    /\ actualCost = 0
    /\ projCalls = [c \in ProjCallIds |-> ProjIdle("none")]

ProjFrame == UNCHANGED <<permVars, repoVars, stockVars, assetVars, maintVars,
                         auditVars, storeVars, userVars, navVars, entVars,
                         matrixVars, adminVars,
                         loginVars>>

\* setTenant (inherited from BaseService)
ProjSetTenant ==
    /\ \E t \in ProjTenants : projTenantId' = t
    /\ UNCHANGED <<expenses, actualCost, projCalls>>
    /\ ProjFrame

\* expenses.reduce((sum, exp) => sum + exp.amount, 0)
RECURSIVE Reduce(_)
Reduce(amounts) ==
    IF amounts = <<>> THEN 0 ELSE Head(amounts) + Reduce(Tail(amounts))

\* addExpense(projectId, data, userId) is called: the tenant guard, then
\* addDoc is sent.
AddExpense ==
    /\ \E c \in ProjCallIds, amount \in Amounts :
          /\ projCalls[c].pc = "done"
          /\ Len(expenses)
               + Cardinality({k \in ProjCallIds : projCalls[k].pc = "add"})
               < MaxExpenses
          /\ projCalls' =
               [projCalls EXCEPT
                  ![c] = IF projTenantId = NULL THEN ProjIdle(ERR_TENANT)
                         ELSE [pc |-> "add", amount |-> amount, actualCost |-> 0,
                               error |-> "none"]]
    /\ UNCHANGED <<projTenantId, expenses, actualCost>>
    /\ ProjFrame

\* addDoc has stored the expense; recalculateActualCost sends getExpenses.
ExpenseAdded ==
    /\ \E c \in ProjCallIds :
          /\ projCalls[c].pc = "add"
          /\ expenses' = Append(expenses, projCalls[c].amount)
          /\ projCalls' = [projCalls EXCEPT ![c].pc = "read"]
    /\ UNCHANGED <<projTenantId, actualCost>>
    /\ ProjFrame

\* recalculateActualCost after getExpenses: the sum of the amounts read.
Recalculated(amounts) == Reduce(amounts)

\* getExpenses has answered; update(projectId, { actual_cost }) is sent.
ExpensesRead ==
    /\ \E c \in ProjCallIds :
          /\ projCalls[c].pc = "read"
          /\ projCalls' =
               [projCalls EXCEPT
                  ![c].pc = "write",
                  ![c].actualCost = Recalculated(expenses)]
    /\ UNCHANGED <<projTenantId, expenses, actualCost>>
    /\ ProjFrame

\* update has written actual_cost; addExpense returns.
CostWritten ==
    /\ \E c \in ProjCallIds :
          /\ projCalls[c].pc = "write"
          /\ actualCost' = projCalls[c].actualCost
          /\ projCalls' = [projCalls EXCEPT ![c] = ProjIdle("none")]
    /\ UNCHANGED <<projTenantId, expenses>>
    /\ ProjFrame

ProjNext ==
    \/ ProjSetTenant
    \/ AddExpense
    \/ ExpenseAdded
    \/ ExpensesRead
    \/ CostWritten

\* C26: whenever no addExpense call is in flight, the project's actual_cost is
\* the sum of the amounts of its expense records.
C26_ActualCostIsSumOfExpenses ==
    (\A c \in ProjCallIds : projCalls[c].pc = "done")
    => actualCost = Reduce(expenses)

(***************************************************************************)
(* FIRST LOGIN  (src/src/stores/auth.store.ts: initializeAuth,             *)
(* createInitialSetup, loadUserData; App.vue onMounted; src/unnamed/part_006 *)
(* router.beforeEach)                                                      *)
(***************************************************************************)

\* The callers of initializeAuth, each registering one listener, and the
\* largest value of Date.now().
Listeners == {"app", "guard"}
MaxNow == 2
TenantIdAt(time) == <<"tenant", time>>
NoTenant == <<>>

\* A listener: seen is the auth state last delivered to it ("unset" before
\* initializeAuth registered it); pc is where its callback stands; tenant is
\* storedTenantId of loadUserData (tenantId of createInitialSetup); inSetup
\* says whether the callback is inside createInitialSetup; path is the tenant
\* of the user document the awaited request names; exists is existingUser of
\* upsertFromAuth.
Listener(seen, pc, tenant, inSetup, path, exists, error) ==
    [seen |-> seen, pc |-> pc, tenant |-> tenant, inSetup |-> inSetup,
     path |-> path, exists |-> exists, error |-> error]
Unregistered == Listener("unset", "idle", NoTenant, FALSE, NoTenant, FALSE, "none")

LoginInit ==
    /\ localTenant = NoTenant
    /\ tenantDocs = {}
    /\ orgDocs = <<>>
    /\ userDocs = {}
    /\ serviceTenant = NoTenant
    /\ dateNow = 1
    /\ signedIn = FALSE
    /\ isLoading = TRUE
    /\ listeners = [l \in Listeners |-> Unregistered]

LoginFrame == UNCHANGED <<permVars, repoVars, stockVars, assetVars, maintVars,
                          auditVars, storeVars, userVars, navVars, entVars,
                          matrixVars, adminVars, projVars>>

\* Time passes.
DateTick ==
    /\ dateNow < MaxNow
    /\ dateNow' = dateNow + 1
    /\ UNCHANGED <<localTenant, tenantDocs, orgDocs, userDocs, serviceTenant,
                   signedIn, isLoading, listeners>>
    /\ LoginFrame

\* signInWithEmailAndPassword resolves: Firebase Auth has a user.
SignedIn ==
    /\ ~signedIn
    /\ signedIn' = TRUE
    /\ UNCHANGED <<localTenant, tenantDocs, orgDocs, userDocs, serviceTenant,
                   dateNow, isLoading, listeners>>
    /\ LoginFrame

\* initializeAuth(): App.vue calls it when mounted, the router guard on a
\* navigation while isLoading; each call registers a listener of its own.
InitializeAuth ==
    /\ \E l \in Listeners :
          /\ listeners[l].seen = "unset"
          /\ l = "guard" => isLoading
          /\ listeners' = [listeners EXCEPT ![l].seen = "nothing"]
    /\ UNCHANGED <<localTenant, tenantDocs, orgDocs, userDocs, serviceTenant,
                   dateNow, signedIn, isLoading>>
    /\ LoginFrame

\* The listener's callback with no user.
SignedOutCallback ==
    /\ \E l \in Listeners :
          /\ listeners[l].seen = "nothing"
          /\ ~signedIn
          /\ listeners' = [listeners EXCEPT ![l].seen = "null"]
    /\ isLoading' = FALSE
    /\ UNCHANGED <<localTenant, tenantDocs, orgDocs, userDocs, serviceTenant,
                   dateNow, signedIn>>
    /\ LoginFrame

\* The listener's callback with the user, up to its first await: loadUserData
\* reads localStorage; without a stored id createInitialSetup makes an id from
\* Date.now() and sends tenantService.create, else tenantService.getById is
\* sent.
StartLoad(l) ==
    IF localTenant = NoTenant
    THEN [listeners[l] EXCEPT !.seen = "user", !.pc = "createTenant",
                              !.tenant = TenantIdAt(dateNow), !.inSetup = TRUE,
                              !.error = "none"]
    ELSE [listeners[l] EXCEPT !.seen = "user", !.pc = "getTenant",
                              !.tenant = localTenant, !.error = "none"]

SignedInCallback ==
    /\ \E l \in Listeners :
          /\ listeners[l].seen \in {"nothing", "null"}
          /\ listeners[l].pc = "idle"
          /\ signedIn
          /\ listeners' = [listeners EXCEPT ![l] = StartLoad(l)]
    /\ UNCHANGED <<localTenant, tenantDocs, orgDocs, userDocs, serviceTenant,
                   dateNow, signedIn, isLoading>>
    /\ LoginFrame

\* createInitialSetup after tenantService.create: the id is stored, the
\* services are bound to it, organizationService.create is sent.
TenantCreated ==
    /\ \E l \in Listeners :
          /\ listeners[l].pc = "createTenant"
          /\ tenantDocs' = tenantDocs \cup {listeners[l].tenant}
          /\ localTenant' = listeners[l].tenant
          /\ serviceTenant' = listeners[l].tenant
          /\ listeners' = [listeners EXCEPT ![l].pc = "createOrg"]
    /\ UNCHANGED <<orgDocs, userDocs, dateNow, signedIn, isLoading>>
    /\ LoginFrame

\* createInitialSetup after organizationService.create: upsertFromAuth is
\* called, which sends getById(uid) under the tenant bound now.
OrgCreated ==
    /\ \E l \in Listeners :
          /\ listeners[l].pc = "createOrg"
          /\ orgDocs' = Append(orgDocs, listeners[l].tenant)
          /\ listeners' = [listeners EXCEPT ![l].pc = "upsertRead",
                                            ![l].path = serviceTenant]
    /\ UNCHANGED <<localTenant, tenantDocs, userDocs, serviceTenant, dateNow,
                   signedIn, isLoading>>
    /\ LoginFrame

\* The callback ends: isAuthenticated is set, isLoading = false.
Finished(l, error) ==
    [listeners[l] EXCEPT !.pc = "idle", !.inSetup = FALSE, !.error = error]

\* upsertFromAuth after getById: updateDoc or setDoc of the user document
\* under the tenant bound now.
UpsertRead ==
    /\ \E l \in Listeners :
          /\ listeners[l].pc = "upsertRead"
          /\ listeners' = [listeners EXCEPT
                              ![l].pc = "upsertWrite",
                              ![l].exists = (listeners[l].path \in userDocs),
                              ![l].path = serviceTenant]
    /\ UNCHANGED <<localTenant, tenantDocs, orgDocs, userDocs, serviceTenant,
                   dateNow, signedIn, isLoading>>
    /\ LoginFrame

\* The user document is written (updateDoc fails on a missing document).
\* Inside createInitialSetup a failure makes it return null and loadUserData
\* throw; else loadUserData goes on with tenantService.getById. Outside,
\* the organization is read and the callback ends.
UpsertWritten ==
    /\ \E l \in Listeners :
          LET call == listeners[l]
              failed == call.exists /\ call.path \notin userDocs IN
          /\ call.pc = "upsertWrite"
          /\ userDocs' = IF failed THEN userDocs ELSE userDocs \cup {call.path}
          /\ listeners' =
               [listeners EXCEPT
                  ![l] = IF failed /\ call.inSetup
                         THEN Finished(l, "Could not create tenant context")
                         ELSE IF failed THEN Finished(l, "not-found")
                         ELSE IF call.inSetup
                         THEN [call EXCEPT !.pc = "getTenant", !.inSetup = FALSE]
                         ELSE Finished(l, "none")]
          /\ isLoading' = IF failed \/ ~call.inSetup THEN FALSE ELSE isLoading
    /\ UNCHANGED <<localTenant, tenantDocs, orgDocs, serviceTenant, dateNow,
                   signedIn>>
    /\ LoginFrame

\* loadUserData after tenantService.getById: the services are bound to the
\* tenant and getByAuthUid is sent.
TenantLoaded ==
    /\ \E l \in Listeners :
          LET call == listeners[l] IN
          /\ call.pc = "getTenant"
          /\ IF call.tenant \in tenantDocs
             THEN /\ serviceTenant' = call.tenant
                  /\ listeners' = [listeners EXCEPT ![l].pc = "getUser",
                                                    ![l].path = call.tenant]
                  /\ UNCHANGED isLoading
             ELSE /\ listeners' = [listeners EXCEPT
                                     ![l] = Finished(l, "Tenant not found")]
                  /\ isLoading' = FALSE
                  /\ UNCHANGED serviceTenant
    /\ UNCHANGED <<localTenant, tenantDocs, orgDocs, userDocs, dateNow, signedIn>>
    /\ LoginFrame

\* loadUserData after getByAuthUid: a user found is the current user, the
\* organization is read and the callback ends; else upsertFromAuth is called.
UserLoaded ==
    /\ \E l \in Listeners :
          LET call == listeners[l] IN
          /\ call.pc = "getUser"
          /\ IF call.path \in userDocs
             THEN /\ listeners' = [listeners EXCEPT ![l] = Finished(l, "none")]
                  /\ isLoading' = FALSE
             ELSE /\ listeners' = [listeners EXCEPT ![l].pc = "upsertRead",
                                                    ![l].path = serviceTenant]
                  /\ UNCHANGED isLoading
    /\ UNCHANGED <<localTenant, tenantDocs, orgDocs, userDocs, serviceTenant,
                   dateNow, signedIn>>
    /\ LoginFrame

LoginNext ==
    \/ DateTick
    \/ SignedIn
    \/ InitializeAuth
    \/ SignedOutCallback
    \/ SignedInCallback
    \/ TenantCreated
    \/ OrgCreated
    \/ UpsertRead
    \/ UpsertWritten
    \/ TenantLoaded
    \/ UserLoaded

\* C25: starting with no stored tenant id, the sign-in creates at most one
\* tenant, one organization and one user record, and exactly one of each once
\* a listener's callback has loaded the user, however many listeners
\* initializeAuth has registered.
C25_ProvisionedOnce ==
    /\ Cardinality(tenantDocs) <= 1
    /\ Len(orgDocs) <= 1
    /\ Cardinality(userDocs) <= 1
    /\ (\E l \in Listeners : listeners[l].seen = "user" /\ listeners[l].pc = "idle"
                              /\ listeners[l].error = "none")
          => /\ Cardinality(tenantDocs) = 1
             /\ Len(orgDocs) = 1
             /\ Cardinality(userDocs) = 1

(***************************************************************************)
(* SPECIFICATIONS                                                          *)
(***************************************************************************)

Init ==
    /\ PermInit /\ RepoInit /\ StockInit /\ AssetInit /\ MaintInit /\ AuditInit
    /\ StoreInit /\ UserInit /\ NavInit /\ EntInit /\ MatrixInit /\ AdminInit /\ ProjInit /\ LoginInit

SpecPerm == Init /\ [][PermNext]_vars
SpecRepo == Init /\ [][RepoNext]_vars
SpecStock == Init /\ [][StockNext]_vars
SpecAsset == Init /\ [][AssetNext]_vars
SpecMaint == Init /\ [][MaintNext]_vars
SpecAudit == Init /\ [][AuditNext]_vars
SpecStore == Init /\ [][StoreNext]_vars
SpecUser == Init /\ [][UserNext]_vars
SpecNav == Init /\ [][NavNext]_vars
SpecEnt == Init /\ [][EntNext]_vars
SpecMatrix == Init /\ [][MatrixNext]_vars
SpecAdmin == Init /\ [][AdminNext]_vars
SpecProj == Init /\ [][ProjNext]_vars
SpecLogin == Init /\ [][LoginNext]_vars

====
